---- MODULE Spec2Model ----
(***************************************************************************)
(* Domain monitor: the probe batch (DomainChecker.check_domains_batch),    *)
(* the error-state tracker (ErrorTracker), the status cache and the        *)
(* notification decision of DomainMonitor.run_check.                       *)
(***************************************************************************)
EXTENDS Integers, Sequences, FiniteSets, TLC

VARIABLES
    \* ---- ErrorTracker (src/src/error_tracker.py)
    current_errors,       \* dict domain_name -> CheckResult (insertion ordered)
    previous_errors,      \* dict domain_name -> CheckResult
    acknowledged_errors,  \* set of domain_name
    history,              \* list of DomainHistory
    retention_days,       \* constructor argument
    now,                  \* the wall clock, in days
    last_op,              \* the tracker operation that ran last
    ret,                  \* what the last update_status call was given and returned
    updates,              \* number of update_status calls so far
    \* ---- DomainChecker (src/src/domain_checker.py)
    max_concurrent,       \* self.max_concurrent
    initial_concurrent,   \* self.initial_concurrent
    retry_count,          \* self.retry_count
    auto_adjust,          \* self.auto_adjust
    PSUTIL_AVAILABLE,     \* whether psutil could be imported
    last_status,          \* dict url -> bool, the status cache
    closed_under,         \* the requests in flight on a pooled client that was closed
    run,                  \* the run_check tasks: one record per caller
    \* ---- DomainMonitor and TelegramBot (src/src/main.py, src/src/telegram_bot.py)
    config,               \* the configuration run_check reads each cycle
    bot,                  \* the bot object: whether it carries groups_config, and its value
    scheduler,            \* where schedule_checks stands
    launched,             \* number of runs started so far, per caller
    executing_commands,   \* the bot's markers of commands in flight
    elapsed_seconds,      \* the last cycle's duration against max_cycle_seconds
    overran_notices,      \* number of overrun warnings handed to bot.send_message
    \* ---- TelegramNotifier (src/src/telegram_notifier.py)
    failure_count,        \* self.notifier.failure_count: url -> count
    stop_call,            \* DomainMonitor.stop: where the call stands, and its force flag
    \* ---- ConfigManager (src/src/config_manager.py)
    fs,                   \* config.json and config.json.bak on disk, the last save's outcome
    \* ---- HttpApiServer (src/src/http_server.py)
    http                  \* the server's settings, its request counter and its last answer

trackerVars == <<current_errors, previous_errors, acknowledged_errors, history,
                 retention_days, now, last_op, ret, updates>>

checkerVars == <<max_concurrent, initial_concurrent, retry_count, auto_adjust,
                 PSUTIL_AVAILABLE, last_status, closed_under>>

monitorVars == <<config, bot, scheduler, launched, executing_commands,
                 elapsed_seconds, overran_notices, failure_count, stop_call, fs, http>>

vars == <<trackerVars, checkerVars, run, monitorVars>>

(***************************************************************************)
(* Bounds of the model                                                     *)
(***************************************************************************)
MaxUpdates == 2
MaxDay == 1
MaxConcurrent == 2
MaxRetry == 1
MaxInserts == 2
MaxCycles == 2
MaxManual == 1
\* consecutive failures counted per endpoint when notify_failures is called directly
MaxFailures == 2
MaxRequests == 3

(***************************************************************************)
(* Endpoint texts.  A text is scheme + host + path; equality is equality   *)
(* of the three parts, i.e. of the original textual form.                  *)
(***************************************************************************)
Text(scheme, host, path) == [scheme |-> scheme, host |-> host, path |-> path]

E_a  == Text("", "a.test", "")
E_ax == Text("https://", "a.test", "/x")
E_b  == Text("", "b.test", "")
E_ws == Text("", "ws.test", "")

\* str.startswith("ws.") on a bare address
StartsWithWsDot(t) == t.scheme = "" /\ t.host \in {"ws.test"}

\* the URL that is probed for an endpoint text (scheme added when missing)
NormalizeUrl(t, try_http) ==
    IF t.scheme # "" THEN t
    ELSE IF StartsWithWsDot(t) THEN Text("wss://", t.host, t.path)
    ELSE IF try_http THEN Text("http://", t.host, t.path)
    ELSE Text("https://", t.host, t.path)

\* urlparse(url).netloc: the host part only, as a text
Netloc(u) == Text("", u.host, "")

(***************************************************************************)
(* CheckStatus and CheckResult                                             *)
(***************************************************************************)
SUCCESS == "success"
DNS_ERROR == "dns_error"
CONNECTION_ERROR == "connection_error"
TIMEOUT == "timeout"
HTTP_ERROR == "http_error"
SSL_ERROR == "ssl_error"
WEBSOCKET_ERROR == "websocket_error"
PHISHING_WARNING == "phishing_warning"
SECURITY_WARNING == "security_warning"
UNKNOWN_ERROR == "unknown_error"

CheckStatus == {SUCCESS, DNS_ERROR, CONNECTION_ERROR, TIMEOUT, HTTP_ERROR, SSL_ERROR,
                WEBSOCKET_ERROR, PHISHING_WARNING, SECURITY_WARNING, UNKNOWN_ERROR}

\* the fields the CheckResult dataclass accepts as keyword arguments
CheckResultFields == {"domain_name", "url", "status", "status_code", "error_message",
                      "response_time", "timestamp"}

CheckResult(domain_name, url, status) ==
    [domain_name |-> domain_name, url |-> url, status |-> status]

is_success(r) == r.status = SUCCESS

\* the result a probe of endpoint text t yields when it ends with `status`
ProbeResult(t, status) ==
    CheckResult(Netloc(NormalizeUrl(t, FALSE)), NormalizeUrl(t, FALSE), status)

(***************************************************************************)
(* Python dict: a sequence of key/value entries with distinct keys, in     *)
(* insertion order.                                                        *)
(***************************************************************************)
DictKeys(d) == {d[i].k : i \in DOMAIN d}
DictGet(d, key) == d[CHOOSE i \in DOMAIN d : d[i].k = key].v
DictPut(d, key, val) ==
    IF key \in DictKeys(d)
    THEN [i \in DOMAIN d |-> IF d[i].k = key THEN [k |-> key, v |-> val] ELSE d[i]]
    ELSE Append(d, [k |-> key, v |-> val])

RECURSIVE SeqToSet(_)
SeqToSet(s) == IF s = <<>> THEN {} ELSE {Head(s)} \cup SeqToSet(Tail(s))

(***************************************************************************)
(* ErrorTracker                                                            *)
(***************************************************************************)
max_records == 10000

\* DomainHistory(domain_name, status, error_type, timestamp, acknowledged)
DomainHistory(domain_name, status, error_type, timestamp) ==
    [domain_name |-> domain_name, status |-> status, error_type |-> error_type,
     timestamp |-> timestamp, acknowledged |-> FALSE]

\* cleanup_old_records: keep the records newer than now - retention_days
cleanup_old_records(h, today, retention) ==
    SelectSeq(h, LAMBDA r : r.timestamp > today - retention)

\* add_to_history with the is_recovery flag read inverted
add_to_history_inverted(h, result, is_recovery, today) ==
    LET record == DomainHistory(result.domain_name,
                                IF ~is_recovery THEN "recovered" ELSE result.status,
                                IF ~is_recovery THEN "None" ELSE result.status,
                                today)
        h1 == Append(h, record)
    IN IF Len(h1) > max_records
       THEN SubSeq(h1, Len(h1) - max_records + 1, Len(h1))
       ELSE h1

\* add_to_history: append one record, then keep the last max_records records
add_to_history(h, result, is_recovery, today) ==
    LET record == DomainHistory(result.domain_name,
                                IF is_recovery THEN "recovered" ELSE result.status,
                                IF is_recovery THEN "None" ELSE result.status,
                                today)
        h1 == Append(h, record)
    IN IF Len(h1) > max_records
       THEN SubSeq(h1, Len(h1) - max_records + 1, Len(h1))
       ELSE h1

RECURSIVE add_all_to_history(_, _, _, _)
add_all_to_history(h, rs, is_recovery, today) ==
    IF rs = <<>> THEN h
    ELSE add_all_to_history(add_to_history(h, Head(rs), is_recovery, today),
                            Tail(rs), is_recovery, today)

\* the first loop of update_status: the failing results keyed by domain_name
RECURSIVE CollectErrors(_, _)
CollectErrors(results, d) ==
    IF results = <<>> THEN d
    ELSE CollectErrors(Tail(results),
                       IF ~is_success(Head(results))
                       THEN DictPut(d, Head(results).domain_name, Head(results))
                       ELSE d)

CurrentHealthy(results) ==
    {results[i].domain_name : i \in {j \in DOMAIN results : is_success(results[j])}}

DictValues(d) == [i \in DOMAIN d |-> d[i].v]

\* a current error is new when its key was absent before or its status changed
IsNewError(prev, r) ==
    \/ r.domain_name \notin DictKeys(prev)
    \/ DictGet(prev, r.domain_name).status # r.status

\* the keyword arguments update_status passes to CheckResult for a recovery
RecoveredKwargs == {"domain_name", "url", "status", "is_success", "response_time",
                    "checked_at"}

\* a dataclass constructor raises TypeError on a keyword that is no field
ConstructorRaises(kwargs) == ~(kwargs \subseteq CheckResultFields)

\* update_status(results): the state it leaves and what it returns or raises
update_status(results, cur0, ack0, hist0, today, retention) ==
    LET prev == cur0
        cur == CollectErrors(results, <<>>)
        healthy == CurrentHealthy(results)
        errs == DictValues(cur)
        new_errors == SelectSeq(errs, LAMBDA r : IsNewError(prev, r))
        persistent == SelectSeq(errs, LAMBDA r : ~IsNewError(prev, r))
        hist1 == add_all_to_history(hist0, new_errors, FALSE, today)
        rec_entries == SelectSeq(prev, LAMBDA e : e.k \in healthy)
        recovered == [i \in DOMAIN rec_entries |->
                        CheckResult(rec_entries[i].k, rec_entries[i].v.url, SUCCESS)]
        hist2 == add_all_to_history(hist1, recovered, TRUE, today)
    IN IF rec_entries # <<>> /\ ConstructorRaises(RecoveredKwargs)
       THEN [raised |-> TRUE, current_errors |-> cur, previous_errors |-> prev,
             acknowledged_errors |-> ack0, history |-> hist1,
             new_errors |-> <<>>, recovered |-> <<>>, persistent_errors |-> <<>>]
       ELSE [raised |-> FALSE, current_errors |-> cur, previous_errors |-> prev,
             acknowledged_errors |-> ack0 \ DictKeys(rec_entries),
             history |-> cleanup_old_records(hist2, today, retention),
             new_errors |-> new_errors, recovered |-> recovered,
             persistent_errors |-> persistent]

\* acknowledge_error(domain): mark the newest unacknowledged record of the domain
AckIndex(h, domain) ==
    {i \in DOMAIN h : h[i].domain_name = domain /\ ~h[i].acknowledged}

acknowledge_error(h, domain) ==
    IF AckIndex(h, domain) = {} THEN h
    ELSE LET top == CHOOSE i \in AckIndex(h, domain) :
                        \A j \in AckIndex(h, domain) : j <= i
         IN [h EXCEPT ![top].acknowledged = TRUE]

get_unacknowledged_errors(cur, ack) ==
    SelectSeq(DictValues(cur), LAMBDA r : r.domain_name \notin ack)

(***************************************************************************)
(* Tracker operations as actions                                           *)
(***************************************************************************)
TrackerDomainLists == {<<E_a>>, <<E_a, E_b>>, <<E_a, E_ax>>}
TrackerStatuses == {SUCCESS, TIMEOUT, DNS_ERROR}

\* the result lists a probe run over `domains` can hand to the tracker
ResultsFor(domains, statuses) ==
    {[i \in DOMAIN domains |-> ProbeResult(domains[i], st[i])] :
        st \in [DOMAIN domains -> statuses]}

NoReturn == [raised |-> FALSE, new_errors |-> <<>>, recovered |-> <<>>,
             persistent_errors |-> <<>>, results |-> <<>>]

\* error_history.json as a previous process left it: absent, or one acknowledged error
SavedFiles ==
    {[history |-> <<>>, acknowledged_errors |-> {}],
     [history |-> <<[DomainHistory(Netloc(E_a), TIMEOUT, TIMEOUT, 0)
                        EXCEPT !.acknowledged = TRUE]>>,
      acknowledged_errors |-> {Netloc(E_a)}]}

\* ErrorTracker.__init__ followed by load_history
TrackerInit ==
    /\ retention_days \in {1, 30}
    /\ now = 0
    /\ current_errors = <<>>
    /\ previous_errors = <<>>
    /\ \E f \in SavedFiles :
          /\ history = cleanup_old_records(f.history, 0, retention_days)
          /\ acknowledged_errors = f.acknowledged_errors
    /\ last_op = "load_history"
    /\ ret = NoReturn
    /\ updates = 0

\* what one update_status(results) call does to the tracker
\* update_status with the swap after the diff: previous_errors <- current_errors
update_status_step_swapped(results) ==
    /\ LET out == update_status(results, current_errors, acknowledged_errors, history,
                                now, retention_days)
       IN /\ current_errors' = out.current_errors
          /\ previous_errors' = out.current_errors
          /\ acknowledged_errors' = out.acknowledged_errors
          /\ history' = out.history
          /\ ret' = [raised |-> out.raised, new_errors |-> out.new_errors,
                     recovered |-> out.recovered,
                     persistent_errors |-> out.persistent_errors,
                     results |-> results]
    /\ last_op' = "update_status"
    /\ updates' = updates + 1
    /\ UNCHANGED <<retention_days, now>>

update_status_step(results) ==
    /\ LET out == update_status(results, current_errors, acknowledged_errors, history,
                                now, retention_days)
       IN /\ current_errors' = out.current_errors
          /\ previous_errors' = out.previous_errors
          /\ acknowledged_errors' = out.acknowledged_errors
          /\ history' = out.history
          /\ ret' = [raised |-> out.raised, new_errors |-> out.new_errors,
                     recovered |-> out.recovered,
                     persistent_errors |-> out.persistent_errors,
                     results |-> results]
    /\ last_op' = "update_status"
    /\ updates' = updates + 1
    /\ UNCHANGED <<retention_days, now>>

UpdateStatus(results) ==
    /\ updates < MaxUpdates
    /\ update_status_step(results)

\* a handler that acknowledges whatever domain it is given
CmdAcknowledgeError_any(domain) ==
    /\ acknowledged_errors' = acknowledged_errors \cup {domain}
    /\ history' = cleanup_old_records(acknowledge_error(history, domain), now,
                                      retention_days)
    /\ last_op' = "/ack " \o domain.host
    /\ UNCHANGED <<current_errors, previous_errors, retention_days, now, ret,
                   updates>>

\* cmd_acknowledge_error, the only caller of ErrorTracker.acknowledge_error:
\* "/ack <domain>" acknowledges a domain that is a key of current_errors (the
\* tracker adds it to acknowledged_errors, stamps its newest unacknowledged record
\* and saves) and only answers that there is no error for any other domain
CmdAcknowledgeError(domain) ==
    /\ IF domain \in DictKeys(current_errors)
       THEN /\ acknowledged_errors' = acknowledged_errors \cup {domain}
            /\ history' = cleanup_old_records(acknowledge_error(history, domain), now,
                                              retention_days)
       ELSE UNCHANGED <<acknowledged_errors, history>>
    /\ last_op' = "/ack " \o domain.host
    /\ UNCHANGED <<current_errors, previous_errors, retention_days, now, ret,
                   updates>>

Tick ==
    /\ now < MaxDay
    /\ now' = now + 1
    /\ UNCHANGED <<current_errors, previous_errors, acknowledged_errors, history,
                   retention_days, last_op, ret, updates>>

TrackerUpdate ==
    \E domains \in TrackerDomainLists :
        \E results \in ResultsFor(domains, TrackerStatuses) : UpdateStatus(results)

TrackerAck == \E domain \in {Netloc(E_a), Netloc(E_b)} : CmdAcknowledgeError(domain)

(***************************************************************************)
(* DomainChecker: one probe and its classification                         *)
(***************************************************************************)
E_bad == Text("https://", "[bad", "")
E_wss == Text("wss://", "w.test", "")

\* url.startswith(("ws://", "wss://")), or a bare address starting with "ws."
IsWebsocket(t) == t.scheme \in {"ws://", "wss://"} \/ StartsWithWsDot(t)

\* urlparse raises ValueError on an unbalanced bracket in the host
UrlparseRaises(t) == t.host = "[bad"

\* what the network can answer to one HTTP request
RawHttp == {"ok", "bad_status", "dns_other", "ssl_connect", "refused", "timeout",
            "ssl_exc"}
\* what the network can answer to one WebSocket handshake
RawWs == {"ws_open", "ws_timeout", "ws_invalid", "ws_ssl", "ws_dns"}

RawOutcomes(t) == IF IsWebsocket(t) THEN RawWs ELSE RawHttp

NoResult == CheckResult(Text("", "", ""), Text("", "", ""), "none")

\* _check_websocket: the status of one handshake
check_websocket(raw) ==
    CASE raw = "ws_open" -> SUCCESS
      [] raw = "ws_timeout" -> TIMEOUT
      [] raw = "ws_invalid" -> WEBSOCKET_ERROR
      [] raw = "ws_ssl" -> SSL_ERROR
      [] raw = "ws_dns" -> DNS_ERROR

\* _check_once: the status of one HTTP request, no retry and no downgrade
check_once_status(raw) ==
    CASE raw = "ok" -> SUCCESS
      [] raw = "bad_status" -> HTTP_ERROR
      [] raw = "security" -> SECURITY_WARNING
      [] raw \in {"dns", "dns_other"} -> DNS_ERROR
      [] raw \in {"ssl_connect", "refused", "proxy"} -> CONNECTION_ERROR
      [] raw = "timeout" -> TIMEOUT
      [] raw = "ssl_exc" -> SSL_ERROR
      [] raw = "other" -> UNKNOWN_ERROR

_check_once(url, raw, try_http) ==
    LET u == NormalizeUrl(url, try_http)
    IN CheckResult(Netloc(u), u,
                   IF IsWebsocket(url) THEN check_websocket(raw)
                   ELSE check_once_status(raw))

\* check_single_no_retry: _check_once, an exception becoming unknown_error
check_single_no_retry(url, raw) ==
    IF UrlparseRaises(url)
    THEN CheckResult(url,
                     IF url.scheme \in {"http://", "https://"} THEN url
                     ELSE Text("https://", url.scheme \o url.host, url.path),
                     UNKNOWN_ERROR)
    ELSE _check_once(url, raw, FALSE)

\* original_url.replace("https://", "http://") if it starts with https:// else itself
HttpUrl(original_url) ==
    IF original_url.scheme = "https://"
    THEN Text("http://", original_url.host, original_url.path)
    ELSE original_url

QuickThreshold == 50

\* check_single_domain(url, retry_attempt, quick_mode, try_http) up to the end of
\* its request: it returns a result, or calls itself with the arguments in `call`
\* (after asyncio.sleep(retry_delay) when `sleep`); `status` is what the request
\* was classified as
check_single_domain(url, retry_attempt, quick_mode, try_http, raw, rc) ==
    LET u == NormalizeUrl(url, try_http)
        max_retries == IF quick_mode THEN 1 ELSE rc
        Return(st) == [kind |-> "return", status |-> st,
                       result |-> CheckResult(Netloc(u), u, st),
                       url |-> url, retry_attempt |-> retry_attempt,
                       try_http |-> try_http, sleep |-> FALSE]
        Downgrade(st) == [kind |-> "call", status |-> st, result |-> NoResult,
                          url |-> HttpUrl(url), retry_attempt |-> 0,
                          try_http |-> TRUE, sleep |-> FALSE]
        Retry(st) == [kind |-> "call", status |-> st, result |-> NoResult,
                      url |-> u, retry_attempt |-> retry_attempt + 1,
                      try_http |-> try_http, sleep |-> TRUE]
        https == u.scheme = "https://"
    IN IF IsWebsocket(url) THEN Return(check_websocket(raw))
       ELSE CASE raw = "ok" -> Return(SUCCESS)
              [] raw = "security" -> Return(SECURITY_WARNING)
              [] raw = "bad_status" -> Return(HTTP_ERROR)
              [] raw = "dns" -> Return(DNS_ERROR)
              [] raw \in {"ssl_connect", "ssl_exc"} ->
                    IF https /\ ~try_http THEN Downgrade(SSL_ERROR)
                    ELSE Return(SSL_ERROR)
              [] raw \in {"refused", "dns_other"} ->
                    IF https /\ ~try_http /\ retry_attempt = 0
                    THEN Downgrade(CONNECTION_ERROR)
                    ELSE IF retry_attempt < max_retries THEN Retry(CONNECTION_ERROR)
                    ELSE Return(CONNECTION_ERROR)
              [] raw = "timeout" ->
                    IF retry_attempt < max_retries THEN Retry(TIMEOUT)
                    ELSE Return(TIMEOUT)
              [] raw = "proxy" -> Return(CONNECTION_ERROR)
              [] raw = "other" -> Return(UNKNOWN_ERROR)

(***************************************************************************)
(* DomainChecker: the adaptive controller and the status cache             *)
(***************************************************************************)
Min(a, b) == IF a < b THEN a ELSE b
Max(a, b) == IF a > b THEN a ELSE b
Abs(a) == IF a < 0 THEN 0 - a ELSE a

\* int(n * 0.5), int(n * 0.7), int(n * 0.3), int(n * 0.6) in double arithmetic
IntHalf(n) == (n * 5) \div 10
IntSeventy(n) == IF n \in {90, 170, 180} THEN (n * 7) \div 10 - 1 ELSE (n * 7) \div 10
IntThirty(n) == (n * 3) \div 10
IntSixty(n) == (n * 6) \div 10

\* self.performance_history: nothing in the repository appends to it
performance_history == <<>>

\* the readings psutil can give, one per branch of the controller
CpuReadings == {20, 50, 70, 90}
MemReadings == {50, 75, 90}

\* the CPU rule with the halving rounded up instead of truncated
by_cpu_rounded_up(initial, cpu) ==
    IF cpu > 80 THEN Max(1, (initial * 5 + 9) \div 10)
    ELSE IF cpu > 60 THEN Max(2, IntSeventy(initial))
    ELSE IF cpu < 30 THEN Min(initial * 2, 200)
    ELSE initial

\* the CPU rule: the candidate after it
by_cpu(initial, cpu) ==
    IF cpu > 80 THEN Max(1, IntHalf(initial))
    ELSE IF cpu > 60 THEN Max(2, IntSeventy(initial))
    ELSE IF cpu < 30 THEN Min(initial * 2, 200)
    ELSE initial

\* the memory rule: the candidate after it
by_memory(candidate, initial, mem) ==
    IF mem > 85 THEN Min(candidate, Max(1, IntThirty(initial)))
    ELSE IF mem > 70 THEN Min(candidate, Max(2, IntSixty(initial)))
    ELSE candidate

RECURSIVE SumSeq(_)
SumSeq(s) == IF s = <<>> THEN 0 ELSE Head(s) + SumSeq(Tail(s))

\* the latency rule: sum(history[-3:]) / 3 > timeout * 0.8, times in whole seconds
by_latency(candidate, response_times, timeout) ==
    IF Len(response_times) >= 3
       /\ 10 * SumSeq(SubSeq(response_times, Len(response_times) - 2, Len(response_times)))
              > 24 * timeout
    THEN Max(1, IntSeventy(candidate))
    ELSE candidate

suggested_concurrent(initial, cpu, mem) ==
    LET by_perf == by_latency(by_memory(by_cpu(initial, cpu), initial, mem),
                              performance_history, config.timeout_seconds)
    IN Max(1, Min(by_perf, 200))

\* _adjust_concurrent_by_resources: the max_concurrent it leaves
_adjust_concurrent_by_resources(mc, initial, auto, psutil, cpu, mem) ==
    IF ~auto \/ ~psutil THEN mc
    ELSE LET s == suggested_concurrent(initial, cpu, mem)
         IN IF 5 * Abs(s - mc) > mc THEN s ELSE mc

max_status_cache == 1000

\* _update_status_cache with the cap compared by > instead of >=
_update_status_cache_late(cache, url, status) ==
    LET kept == IF Len(cache) > max_status_cache
                THEN SubSeq(cache, Len(cache) \div 2 + 1, Len(cache))
                ELSE cache
    IN DictPut(kept, url, status)

\* _update_status_cache: at the cap keep the newer half, then store the entry
_update_status_cache(cache, url, status) ==
    LET kept == IF Len(cache) >= max_status_cache
                THEN SubSeq(cache, Len(cache) \div 2 + 1, Len(cache))
                ELSE cache
    IN DictPut(kept, url, status)

RECURSIVE update_cache_all(_, _)
update_cache_all(cache, results) ==
    IF results = <<>> THEN cache
    ELSE update_cache_all(_update_status_cache(cache, Head(results).url,
                                               is_success(Head(results))),
                          Tail(results))

(***************************************************************************)
(* TelegramNotifier: which messages notify_failures sends                  *)
(***************************************************************************)
\* a message sent to a chat; `via` tells the caller of the notifier
Msg(kind, chat) == [kind |-> kind, chat |-> chat, via |-> "run_check"]

FailedCount(results) == Len(SelectSeq(results, LAMBDA r : ~is_success(r)))

\* a summary that treats a manual check like a scheduled one
_send_check_summary_scheduled(results, notify_all_success, quiet_on_success, is_manual, chat) ==
    IF results = <<>> THEN <<>>
    ELSE IF FailedCount(results) = 0 /\ (quiet_on_success \/ ~notify_all_success)
    THEN <<>>
    ELSE IF FailedCount(results) = 0 THEN <<Msg("all_ok", chat)>>
    ELSE <<Msg("failure_summary", chat)>>

\* _send_check_summary: silent on an empty list, and on an all-successful scheduled
\* check unless notify_all_success; otherwise the "all ok" block or the failure summary
_send_check_summary(results, notify_all_success, quiet_on_success, is_manual, chat) ==
    IF results = <<>> THEN <<>>
    ELSE IF ~is_manual /\ FailedCount(results) = 0
            /\ (quiet_on_success \/ ~notify_all_success)
    THEN <<>>
    ELSE IF FailedCount(results) = 0 THEN <<Msg("all_ok", chat)>>
    ELSE <<Msg("failure_summary", chat)>>

\* _send_smart_notification: silent when nothing changed
\* the domain names a bullet list shows: those of the first ten entries
Bullets(rs) == {rs[i].domain_name : i \in 1..Min(10, Len(rs))}

_send_smart_notification(new_errors, recovered, chat) ==
    IF new_errors = <<>> /\ recovered = <<>> THEN <<>>
    ELSE <<[names |-> Bullets(new_errors) \cup Bullets(recovered)]
               @@ Msg("state_change", chat)>>

\* notify_failures: the state-change message when new_errors or recovered was
\* passed (is not None), the check summary otherwise
\* the head of notify_failures: 0 for a successful result, one more for any other
RECURSIVE update_failure_count(_, _)
update_failure_count(count, results) ==
    IF results = <<>> THEN count
    ELSE LET r == Head(results)
             n == IF is_success(r) THEN 0
                  ELSE IF r.url \in DictKeys(count) THEN DictGet(count, r.url) + 1
                  ELSE 1
         IN update_failure_count(DictPut(count, r.url, n), Tail(results))

notify_failures(results, quiet_on_success, is_manual, passed_changes, new_errors, recovered, chat) ==
    IF passed_changes
    THEN _send_smart_notification(new_errors, recovered, chat)
    ELSE _send_check_summary(results, FALSE, quiet_on_success, is_manual, chat)

\* the batch_callback of run_check when batch_notify is on
batch_callback(batch_results) ==
    LET alerts == notify_failures(batch_results, FALSE, FALSE, FALSE, <<>>, <<>>,
                                  "default")
    IN [i \in 1..(1 + Len(alerts)) |->
          [(<<Msg("batch_done", "default")>> \o alerts)[i]
              EXCEPT !.via = "batch_callback"]]

(***************************************************************************)
(* TelegramNotifier: the texts of a check notification.  A text is the     *)
(* sequence of its pieces; a piece has a kind, the bucket or endpoint name *)
(* it shows, and its length in characters.                                 *)
(***************************************************************************)
Piece(kind, key, len) == [kind |-> kind, key |-> key, len |-> len]

\* len(message)
RECURSIVE TextLen(_)
TextLen(message) ==
    IF message = <<>> THEN 0 ELSE Head(message).len + TextLen(Tail(message))

\* len(str(n)) of a count in an f-string
Digits(n) == IF n < 10 THEN 1 ELSE IF n < 100 THEN 2 ELSE 3

\* len of an endpoint text
StrLen(t) == Len(t.scheme) + Len(t.host) + Len(t.path)

\* result.status_code, 0 standing for None
StatusCode(r) == IF "status_code" \in DOMAIN r THEN r.status_code ELSE 0

\* the length of the "next check" lines: next_run_time missing, already due, or ahead
NextRuns == {"none", "due", "ahead"}
next_run_len(next_run, ahead_len) ==
    CASE next_run = "none" -> 0
      [] next_run = "due" -> 11
      [] OTHER -> ahead_len

\* a bucketing by hundreds: every 4xx a bad request, every 5xx below 520 a
\* server error
error_group_key_by_class(r) ==
    IF r.status = HTTP_ERROR /\ StatusCode(r) # 0
    THEN CASE StatusCode(r) >= 520 -> "cloudflare_error"
           [] StatusCode(r) >= 500 -> "server_error"
           [] OTHER -> "bad_request"
    ELSE r.status

\* the key of error_groups a failing result is appended to
error_group_key(r) ==
    IF r.status = HTTP_ERROR /\ StatusCode(r) # 0
    THEN CASE StatusCode(r) \in {520, 521, 522, 523, 524, 525, 526} -> "cloudflare_error"
           [] StatusCode(r) \in {502, 503, 504} -> "gateway_error"
           [] StatusCode(r) = 500 -> "server_error"
           [] StatusCode(r) \in {403, 401, 451} -> "access_denied"
           [] StatusCode(r) = 404 -> "not_found"
           [] StatusCode(r) \in {400, 429} -> "bad_request"
           [] OTHER -> "http_" \o ToString(StatusCode(r))
    ELSE r.status

\* error_names: len(emoji) + len(name) of a section title
error_names(status) ==
    CASE status = DNS_ERROR -> 8
      [] status = CONNECTION_ERROR -> 7
      [] status = TIMEOUT -> 6
      [] status = SSL_ERROR -> 8
      [] status = WEBSOCKET_ERROR -> 14
      [] status = PHISHING_WARNING -> 7
      [] status = SECURITY_WARNING -> 7
      [] status = UNKNOWN_ERROR -> 5
      [] status = "cloudflare_error" -> 14
      [] status = "gateway_error" -> 5
      [] status = "server_error" -> 8
      [] status = "access_denied" -> 6
      [] status = "not_found" -> 6
      [] status = "bad_request" -> 6
      [] OTHER -> 2 + Len(status)

display_order ==
    <<"cloudflare_error", "gateway_error", "server_error", "access_denied", "not_found",
      "bad_request", DNS_ERROR, CONNECTION_ERROR, TIMEOUT, SSL_ERROR, WEBSOCKET_ERROR,
      PHISHING_WARNING, SECURITY_WARNING, UNKNOWN_ERROR>>

\* len(detail_info): " (" + ", ".join(details) + ")" for the three buckets that
\* list their status codes, empty for the others
detail_info(status, domains) ==
    LET present == {StatusCode(domains[i]) : i \in DOMAIN domains}
        table == CASE status = "cloudflare_error" ->
                        <<<<520, 7>>, <<521, 8>>, <<522, 7>>, <<523, 8>>, <<524, 5>>,
                          <<525, 10>>, <<526, 10>>>>
                   [] status = "gateway_error" -> <<<<502, 6>>, <<503, 9>>, <<504, 7>>>>
                   [] status = "access_denied" -> <<<<401, 6>>, <<403, 7>>, <<451, 7>>>>
                   [] OTHER -> <<>>
        details == SelectSeq(table, LAMBDA d : d[1] \in present)
        RECURSIVE Joined(_)
        Joined(ds) == IF ds = <<>> THEN 0 ELSE Head(ds)[2] + Joined(Tail(ds))
    IN IF table = <<>> THEN 0
       ELSE 3 + Joined(details) + 2 * Max(0, Len(details) - 1)

\* the loop over the domains of one section: a bullet per result, a new message
\* with a continued title when the bullet would pass 3500 characters
RECURSIVE add_domain_lines(_, _, _)
add_domain_lines(st, status, domains) ==
    IF domains = <<>> THEN st
    ELSE LET name == Head(domains).domain_name
             domain_line == Piece("bullet", name, 5 + StrLen(name))
             over == TextLen(st.current_message) + domain_line.len > 3500
             error_messages ==
                 IF over
                 THEN Append(st.error_messages,
                             Append(st.current_message, Piece("newline", "", 1)))
                 ELSE st.error_messages
             current_message ==
                 IF over
                 THEN <<Piece("continued", "", 16),
                        Piece("section_continued", status, error_names(status) + 10)>>
                 ELSE st.current_message
         IN add_domain_lines([error_messages |-> error_messages,
                              current_message |-> Append(current_message, domain_line)],
                             status, Tail(domains))

\* the loop over display_order: a section per key present in error_groups
RECURSIVE add_sections(_, _, _)
add_sections(st, results, order) ==
    IF order = <<>> THEN st
    ELSE LET status == Head(order)
             domains == SelectSeq(results, LAMBDA r : ~is_success(r)
                                                      /\ error_group_key(r) = status)
             section_header ==
                 Piece("section", status,
                       error_names(status) + detail_info(status, domains) + 11
                           + Digits(Len(domains)))
             over == TextLen(st.current_message) + section_header.len > 3500
             opened ==
                 IF over
                 THEN [error_messages |-> Append(st.error_messages, st.current_message),
                       current_message |-> <<Piece("continued", "", 16), section_header>>]
                 ELSE [st EXCEPT !.current_message = Append(@, section_header)]
             listed == add_domain_lines(opened, status, domains)
         IN IF domains = <<>> THEN add_sections(st, results, Tail(order))
            ELSE add_sections([listed EXCEPT !.current_message =
                                   Append(@, Piece("newline", "", 1))],
                              results, Tail(order))

\* the texts _send_check_summary builds: the "all ok" block, or the pages of the
\* failure summary with the time information closing the last page
check_summary_texts(results, next_run) ==
    LET total_count == Len(results)
        failed_count == FailedCount(results)
        header == Piece("summary", "",
                        58 + Digits(total_count) + Digits(total_count - failed_count)
                           + Digits(failed_count))
        st == add_sections([error_messages |-> <<>>, current_message |-> <<header>>],
                           results, display_order)
        time_info == Piece("time", "", 23 + next_run_len(next_run, 40))
    IN IF failed_count = 0
       THEN <<<<Piece("all_ok", "", 50 + Digits(total_count) + next_run_len(next_run, 40))>>>>
       ELSE IF TextLen(st.current_message) + time_info.len > 4000
       THEN st.error_messages \o <<st.current_message, <<time_info>>>>
       ELSE Append(st.error_messages, Append(st.current_message, time_info))

\* the text _send_smart_notification builds
smart_notification_text(new_errors, recovered, persistent_errors, total_results, next_run) ==
    LET shown(rs) == SubSeq(rs, 1, Min(10, Len(rs)))
        more(rs) == IF Len(rs) > 10
                    THEN <<Piece("more", "", 13 + Digits(Len(rs) - 10))>> ELSE <<>>
        unack_count ==
            Len(SelectSeq(persistent_errors,
                          LAMBDA e : \A i \in DOMAIN recovered :
                                         recovered[i].domain_name # e.domain_name))
        failed_count == FailedCount(total_results)
    IN <<Piece("title", "", 14)>>
       \o (IF new_errors = <<>> THEN <<>>
           ELSE <<Piece("new_errors", "", 17 + Digits(Len(new_errors)))>>
                \o [i \in DOMAIN shown(new_errors) |->
                      Piece("bullet", new_errors[i].domain_name,
                            6 + StrLen(new_errors[i].domain_name)
                              + Len(new_errors[i].status))]
                \o more(new_errors) \o <<Piece("newline", "", 1)>>)
       \o (IF recovered = <<>> THEN <<>>
           ELSE <<Piece("recovered", "", 17 + Digits(Len(recovered)))>>
                \o [i \in DOMAIN shown(recovered) |->
                      Piece("bullet", recovered[i].domain_name,
                            3 + StrLen(recovered[i].domain_name))]
                \o more(recovered) \o <<Piece("newline", "", 1)>>)
       \o (IF unack_count > 0
           THEN <<Piece("persistent", "", 44 + Digits(unack_count))>> ELSE <<>>)
       \o <<Piece("totals", "",
                  40 + Digits(Len(total_results))
                     + Digits(Len(total_results) - failed_count) + Digits(failed_count)),
            Piece("time", "", 22 + next_run_len(IF next_run = "due" THEN "none" ELSE next_run, 17))>>

MAX_MESSAGE_LENGTH == 4096

\* a send_message that posts the text as it was given
send_message_whole(message) == message

\* TelegramNotifier.send_message: the text posted to sendMessage, cut to
\* MAX_MESSAGE_LENGTH - 100 characters plus a notice when it is too long
send_message(message) ==
    LET RECURSIVE Cut(_, _)
        Cut(m, n) ==
            IF m = <<>> \/ n = 0 THEN <<>>
            ELSE IF Head(m).len <= n THEN <<Head(m)>> \o Cut(Tail(m), n - Head(m).len)
            ELSE <<Piece("cut", Head(m).key, n)>>
    IN IF TextLen(message) > MAX_MESSAGE_LENGTH
       THEN Append(Cut(message, MAX_MESSAGE_LENGTH - 100), Piece("notice", "", 25))
       ELSE message

\* what sendMessage answers to a request: the HTTP status code
MessengerAnswers == {200, 400}

\* the messages of one notifier call, each with the text posted for it and the
\* one request TelegramNotifier.send_message makes, whatever the answer is
Posted(kind, texts, answer) ==
    [i \in DOMAIN texts |->
        [text |-> send_message(texts[i]),
         requests |-> <<[text |-> send_message(texts[i]), parse_mode |-> "Markdown",
                         status_code |-> answer]>>] @@ Msg(kind, "default")]

\* TelegramBot.send_message: the requests it makes; after a 400 to a Markdown
\* request it calls itself with parse_mode ""
RECURSIVE bot_send_message(_, _, _)
bot_send_message(text, parse_mode, answers) ==
    <<[text |-> text, parse_mode |-> parse_mode, status_code |-> Head(answers)]>>
        \o (IF Head(answers) = 400 /\ parse_mode = "Markdown"
            THEN bot_send_message(text, "", Tail(answers))
            ELSE <<>>)

(***************************************************************************)
(* DomainChecker.check_domains_batch, one record of `run` per call         *)
(***************************************************************************)
Runs == {"sched", "manual"}

IdleRun == [pc |-> "idle", urls |-> <<>>, all_results |-> <<>>,
            processed_count |-> 0, batch_idx |-> 0, batch_size |-> 0,
            semaphore |-> 0, tasks |-> <<>>, batch_results |-> <<>>,
            retry_semaphore |-> 0, retry_tasks |-> <<>>,
            callback |-> FALSE, sent |-> <<>>, groups_domains_map |-> <<>>]

\* the entry of check_domains_batch(urls), urls not empty
EnterBatch(rec, urls, mc) ==
    [rec EXCEPT !.pc = "loop", !.urls = urls, !.all_results = <<>>,
                !.processed_count = 0, !.batch_idx = 0, !.batch_size = mc,
                !.semaphore = 0, !.tasks = <<>>, !.batch_results = <<>>,
                !.retry_semaphore = 0, !.retry_tasks = <<>>]

quick_mode(rec) == Len(rec.urls) > QuickThreshold

\* the timeout a request runs under.  A WebSocket handshake gets
\* "5 if quick_mode else self.timeout" as its argument; an HTTP request is
\* client.get(url) on the pooled client, created with httpx.Timeout(self.timeout):
\* the local "timeout = 5 if quick_mode else self.timeout" only feeds the error
\* texts.  self.timeout is check.timeout_seconds, copied by run_check.
probe_timeout(url, quick) ==
    IF IsWebsocket(url) /\ quick THEN 5 ELSE config.timeout_seconds

Waiting(ts) == {i \in DOMAIN ts : ts[i].st = "wait"}
FirstWaiting(ts) == CHOOSE i \in Waiting(ts) : \A j \in Waiting(ts) : i <= j
AllDone(ts) == \A i \in DOMAIN ts : ts[i].st = "done"
Probing(ts) == {i \in DOMAIN ts : ts[i].st = "probe"}

\* the positions of the first results that are retried
retry_needed(first_results) ==
    SelectSeq([i \in DOMAIN first_results |-> i],
              LAMBDA i : first_results[i].status \in {TIMEOUT, CONNECTION_ERROR})

\* the retry results written by position in the retry list
apply_retry_results_by_position(batch_results, retry_tasks) ==
    [i \in DOMAIN batch_results |->
        IF i \in DOMAIN retry_tasks THEN retry_tasks[i].res ELSE batch_results[i]]

\* batch_results[original_idx] = retry_result, for every retry task
apply_retry_results(batch_results, retry_tasks) ==
    [i \in DOMAIN batch_results |->
        IF \E k \in DOMAIN retry_tasks : retry_tasks[k].original_idx = i
        THEN retry_tasks[CHOOSE k \in DOMAIN retry_tasks :
                            retry_tasks[k].original_idx = i].res
        ELSE batch_results[i]]

\* the requests in flight on a pooled client: _check_once and check_single_domain
\* get the client and await client.get(url); a WebSocket handshake uses no client
OnClient(runs) ==
    UNION {{<<r, "tasks", i>> :
               i \in {j \in Probing(runs[r].tasks) : ~IsWebsocket(runs[r].tasks[j].url)}}
           \cup
           {<<r, "retry_tasks", k>> :
               k \in {j \in Probing(runs[r].retry_tasks) :
                         ~IsWebsocket(runs[r].retry_tasks[j].url)}} : r \in Runs}

\* close_client(): both pooled clients are closed, with whatever is in flight on them
close_client(closed, runs) == closed \cup OnClient(runs)

\* the head of the while loop: adjust the concurrency, slice the batch, create the
\* semaphore and one task per endpoint of the batch
BatchStart(r, cpu, mem) ==
    LET rec == run[r]
        adjust == auto_adjust /\ rec.batch_idx > 0
        mc == IF adjust
              THEN _adjust_concurrent_by_resources(max_concurrent, initial_concurrent,
                                                   auto_adjust, PSUTIL_AVAILABLE,
                                                   cpu, mem)
              ELSE max_concurrent
        batch_size == IF adjust /\ mc # rec.batch_size THEN mc ELSE rec.batch_size
        batch_start == rec.processed_count
        batch_end == Min(batch_start + batch_size, Len(rec.urls))
        batch_urls == SubSeq(rec.urls, batch_start + 1, batch_end)
    IN /\ rec.pc = "loop"
       /\ rec.processed_count < Len(rec.urls)
       /\ (adjust /\ PSUTIL_AVAILABLE) \/ (cpu = 50 /\ mem = 50)
       /\ max_concurrent' = mc
       /\ run' = [run EXCEPT ![r] =
                    [rec EXCEPT !.pc = "gather", !.batch_size = batch_size,
                                !.semaphore = mc,
                                !.tasks = [i \in DOMAIN batch_urls |->
                                             [url |-> batch_urls[i], st |-> "wait",
                                              res |-> NoResult, timeout |-> 0]],
                                !.batch_results = <<>>, !.retry_tasks = <<>>]]
       /\ closed_under' = IF mc # max_concurrent
                          THEN close_client(closed_under, run) ELSE closed_under
       /\ UNCHANGED <<initial_concurrent, retry_count, auto_adjust, PSUTIL_AVAILABLE,
                      last_status, trackerVars, monitorVars>>

\* the next waiting task enters the semaphore and issues its request
ProbeStart(r) ==
    LET rec == run[r]
        i == FirstWaiting(rec.tasks)
    IN /\ rec.pc = "gather"
       /\ Waiting(rec.tasks) # {}
       /\ rec.semaphore > 0
       /\ run' = [run EXCEPT ![r] =
                    IF UrlparseRaises(rec.tasks[i].url)
                    THEN [rec EXCEPT !.tasks[i].st = "done",
                                     !.tasks[i].res =
                                        check_single_no_retry(rec.tasks[i].url, "other")]
                    ELSE [rec EXCEPT !.tasks[i].st = "probe",
                                     !.tasks[i].timeout =
                                        probe_timeout(rec.tasks[i].url, quick_mode(rec)),
                                     !.semaphore = rec.semaphore - 1]]
       /\ UNCHANGED <<checkerVars, trackerVars, monitorVars>>

\* a first attempt ends: classify it and leave the semaphore
ProbeFinish(r, i, raw) ==
    LET rec == run[r]
    IN /\ rec.pc = "gather"
       /\ i \in Probing(rec.tasks)
       /\ raw \in RawOutcomes(rec.tasks[i].url)
       /\ run' = [run EXCEPT ![r] =
                    [rec EXCEPT !.tasks[i].st = "done",
                                !.tasks[i].res =
                                   check_single_no_retry(rec.tasks[i].url, raw),
                                !.semaphore = rec.semaphore + 1]]
       /\ closed_under' = closed_under \ {<<r, "tasks", i>>}
       /\ UNCHANGED <<max_concurrent, initial_concurrent, retry_count, auto_adjust,
                      PSUTIL_AVAILABLE, last_status, trackerVars, monitorVars>>

\* the end of one batch: extend all_results, update the status cache, advance
FinishBatch(r, batch_results) ==
    LET rec == run[r]
        processed == rec.processed_count + Len(rec.tasks)
    IN /\ run' = [run EXCEPT ![r] =
                    [rec EXCEPT !.pc = IF processed < Len(rec.urls)
                                       THEN "pause" ELSE "close",
                                !.all_results = rec.all_results \o batch_results,
                                !.processed_count = processed,
                                !.batch_idx = rec.batch_idx + 1,
                                !.batch_results = batch_results,
                                !.sent = IF rec.callback
                                         THEN rec.sent \o batch_callback(batch_results)
                                         ELSE rec.sent]]
       /\ last_status' = update_cache_all(last_status, batch_results)
       /\ failure_count' = IF rec.callback
                            THEN update_failure_count(failure_count, batch_results)
                            ELSE failure_count
       /\ UNCHANGED <<max_concurrent, initial_concurrent, retry_count, auto_adjust,
                      PSUTIL_AVAILABLE, closed_under, trackerVars, config, bot, scheduler, launched,
                      executing_commands, elapsed_seconds, overran_notices, stop_call, fs, http>>

\* gather returns: collect the endpoints to retry, or finish the batch
GatherDone(r) ==
    LET rec == run[r]
        first_results == [i \in DOMAIN rec.tasks |-> rec.tasks[i].res]
    IN /\ rec.pc = "gather"
       /\ AllDone(rec.tasks)
       /\ IF retry_needed(first_results) # <<>> /\ retry_count > 0
          THEN /\ run' = [run EXCEPT ![r] =
                            [rec EXCEPT !.pc = "retry_sleep",
                                        !.batch_results = first_results]]
               /\ UNCHANGED <<checkerVars, trackerVars, monitorVars>>
          ELSE FinishBatch(r, first_results)

\* after asyncio.sleep(retry_delay): the retry semaphore and one task per endpoint
RetryWake(r) ==
    LET rec == run[r]
        needed == retry_needed(rec.batch_results)
    IN /\ rec.pc = "retry_sleep"
       /\ run' = [run EXCEPT ![r] =
                    [rec EXCEPT !.pc = "retry",
                                !.retry_semaphore = Min(Len(needed), max_concurrent),
                                !.retry_tasks =
                                   [k \in DOMAIN needed |->
                                      [original_idx |-> needed[k],
                                       url |-> rec.tasks[needed[k]].url,
                                       retry_attempt |-> 1, try_http |-> FALSE,
                                       st |-> "wait", res |-> NoResult,
                                       probes |-> 0,
                                       after |-> {}, timeout |-> 0]]]]
       /\ UNCHANGED <<checkerVars, trackerVars, monitorVars>>

\* the next waiting retry task enters the retry semaphore and issues its request
RetryStart(r) ==
    LET rec == run[r]
        k == FirstWaiting(rec.retry_tasks)
    IN /\ rec.pc \in {"retry", "cancelled"}
       /\ Waiting(rec.retry_tasks) # {}
       /\ rec.retry_semaphore > 0
       /\ run' = [run EXCEPT ![r] =
                    [rec EXCEPT !.retry_tasks[k].st = "probe",
                                !.retry_tasks[k].timeout =
                                   probe_timeout(rec.retry_tasks[k].url, quick_mode(rec)),
                                !.retry_tasks[k].probes = 1,
                                !.retry_tasks[k].after =
                                   {rec.batch_results[rec.retry_tasks[k].original_idx].status},
                                !.retry_semaphore = rec.retry_semaphore - 1]]
       /\ UNCHANGED <<checkerVars, trackerVars, monitorVars>>

\* a request of check_single_domain ends: return, downgrade to http, or sleep
RetryFinish(r, k, raw) ==
    LET rec == run[r]
        t == rec.retry_tasks[k]
        out == check_single_domain(t.url, t.retry_attempt, quick_mode(rec),
                                   t.try_http, raw, retry_count)
    IN /\ rec.pc \in {"retry", "cancelled"}
       /\ k \in Probing(rec.retry_tasks)
       /\ raw \in RawOutcomes(t.url)
       /\ run' = [run EXCEPT ![r] =
                    IF out.kind = "return"
                    THEN [rec EXCEPT !.retry_tasks[k].st = "done",
                                     !.retry_tasks[k].res = out.result,
                                     !.retry_semaphore = rec.retry_semaphore + 1]
                    ELSE [rec EXCEPT !.retry_tasks[k].st =
                                        IF out.sleep THEN "sleep" ELSE "probe",
                                     !.retry_tasks[k].url = out.url,
                                     !.retry_tasks[k].retry_attempt = out.retry_attempt,
                                     !.retry_tasks[k].try_http = out.try_http,
                                     !.retry_tasks[k].probes =
                                        IF out.sleep THEN t.probes ELSE t.probes + 1,
                                     !.retry_tasks[k].after =
                                        t.after \cup {out.status}]]
       /\ closed_under' = closed_under \ {<<r, "retry_tasks", k>>}
       /\ UNCHANGED <<max_concurrent, initial_concurrent, retry_count, auto_adjust,
                      PSUTIL_AVAILABLE, last_status, trackerVars, monitorVars>>

\* after asyncio.sleep(retry_delay) inside check_single_domain: the next request
RetryResume(r, k) ==
    LET rec == run[r]
    IN /\ rec.pc \in {"retry", "cancelled"}
       /\ k \in DOMAIN rec.retry_tasks
       /\ rec.retry_tasks[k].st = "sleep"
       /\ run' = [run EXCEPT ![r] =
                    [rec EXCEPT !.retry_tasks[k].st = "probe",
                                !.retry_tasks[k].probes = rec.retry_tasks[k].probes + 1]]
       /\ UNCHANGED <<checkerVars, trackerVars, monitorVars>>

\* every retry task was awaited: overwrite the retried positions, finish the batch
RetryDone(r) ==
    LET rec == run[r]
    IN /\ rec.pc = "retry"
       /\ AllDone(rec.retry_tasks)
       /\ FinishBatch(r, apply_retry_results(rec.batch_results, rec.retry_tasks))

\* asyncio.sleep(0.5) between two batches
PauseDone(r) ==
    /\ run[r].pc = "pause"
    /\ run' = [run EXCEPT ![r].pc = "loop"]
    /\ UNCHANGED <<checkerVars, trackerVars, monitorVars>>

\* close_client and return all_results
BatchReturn(r) ==
    /\ run[r].pc = "close"
    /\ run' = [run EXCEPT ![r].pc = "returned"]
    /\ closed_under' = close_client(closed_under, run)
    /\ UNCHANGED <<max_concurrent, initial_concurrent, retry_count, auto_adjust,
                   PSUTIL_AVAILABLE, last_status, trackerVars, monitorVars>>

NextBatch ==
    \/ \E r \in Runs, cpu \in CpuReadings, mem \in MemReadings : BatchStart(r, cpu, mem)
    \/ \E r \in Runs : ProbeStart(r)
    \/ \E r \in Runs, raw \in RawHttp \cup RawWs :
          \E i \in DOMAIN run[r].tasks : ProbeFinish(r, i, raw)
    \/ \E r \in Runs : GatherDone(r)
    \/ \E r \in Runs : RetryWake(r)
    \/ \E r \in Runs : RetryStart(r)
    \/ \E r \in Runs, raw \in RawHttp \cup RawWs :
          \E k \in DOMAIN run[r].retry_tasks : RetryFinish(r, k, raw)
    \/ \E r \in Runs : \E k \in DOMAIN run[r].retry_tasks : RetryResume(r, k)
    \/ \E r \in Runs : RetryDone(r)
    \/ \E r \in Runs : PauseDone(r)
    \/ \E r \in Runs : BatchReturn(r)

(***************************************************************************)
(* DomainMonitor.run_check, schedule_checks and the /check command         *)
(***************************************************************************)
RECURSIVE Dedup(_)
\* list(dict.fromkeys(domains)): the first occurrence of each text, in order
Dedup(s) ==
    IF s = <<>> THEN <<>>
    ELSE LET rest == Dedup(SubSeq(s, 1, Len(s) - 1))
         IN IF s[Len(s)] \in SeqToSet(rest) THEN rest ELSE Append(rest, s[Len(s)])

RECURSIVE ExtendAll(_)
\* all_domains.extend(group_domains) over the groups, in order
ExtendAll(groups) ==
    IF groups = <<>> THEN <<>> ELSE Head(groups).v \o ExtendAll(Tail(groups))

\* the head of run_check: the endpoints to probe and the map chat -> endpoints;
\* reading bot.groups_config raises AttributeError when the bot has no such attribute
ReadDomains ==
    IF bot.has_groups_config /\ bot.groups_config # <<>>
    THEN [raised |-> FALSE, all_domains |-> ExtendAll(bot.groups_config),
          groups_domains_map |-> bot.groups_config]
    ELSE IF config.domains = <<>>
    THEN [raised |-> FALSE, all_domains |-> <<>>, groups_domains_map |-> <<>>]
    ELSE IF ~bot.has_groups_config
    THEN [raised |-> TRUE, all_domains |-> <<>>, groups_domains_map |-> <<>>]
    ELSE [raised |-> FALSE, all_domains |-> config.domains,
          groups_domains_map |-> <<>>]

\* config.json as load_config found it, no backup file, a platform whose rename
\* replaces an existing target
SavedConfig == [config_file |-> "v0", backup_file |-> "absent", replace |-> TRUE,
                returned |-> "none"]

\* Path.rename(target): POSIX replaces an existing target, Windows raises
\* FileExistsError.  [ok, src, dst] after renaming a file that exists
rename(src, dst, replace) ==
    IF dst # "absent" /\ ~replace THEN [ok |-> FALSE, src |-> src, dst |-> dst]
    ELSE [ok |-> TRUE, src |-> "absent", dst |-> src]

\* the except clause of save_config: restore from the backup when there is one
save_config_failed(config_file, backup_file, replace) ==
    IF backup_file = "absent"
    THEN [config_file |-> config_file, backup_file |-> backup_file, replace |-> replace,
          returned |-> "false"]
    ELSE LET back == rename(backup_file, config_file, replace)
         IN [config_file |-> back.dst, backup_file |-> back.src, replace |-> replace,
             returned |-> IF back.ok THEN "false" ELSE "raised"]

\* save_config: rename the file to .bak, write the new content, delete .bak; fail_at
\* names the step that raises ("none": no step does)
save_config(files, content, fail_at) ==
    LET moved == IF files.config_file = "absent"
                 THEN [ok |-> TRUE, src |-> "absent", dst |-> files.backup_file]
                 ELSE IF fail_at = "rename"
                 THEN [ok |-> FALSE, src |-> files.config_file, dst |-> files.backup_file]
                 ELSE rename(files.config_file, files.backup_file, files.replace)
    IN IF ~moved.ok THEN save_config_failed(moved.src, moved.dst, files.replace)
       ELSE IF fail_at = "open" THEN save_config_failed("absent", moved.dst, files.replace)
       ELSE IF fail_at = "dump" THEN save_config_failed("partial", moved.dst, files.replace)
       ELSE IF moved.dst # "absent" /\ fail_at = "unlink"
       THEN save_config_failed(content, moved.dst, files.replace)
       ELSE [config_file |-> content, backup_file |-> "absent", replace |-> files.replace,
             returned |-> "true"]

\* json.dump of the configuration with check.max_concurrent = n
ConfigContent(n) == "max_concurrent=" \o ToString(n)

\* no answer yet
NoResponse == [status |-> 0, handled |-> FALSE, request |-> "none"]

\* HttpApiServer.__init__ without a configuration: nothing enabled
HttpOff == [auth_enabled |-> FALSE, api_key |-> "", rate_limit_enabled |-> FALSE,
            request_counts |-> 0, response |-> NoResponse]

\* stop() has not been called
NoStop == [pc |-> "none", force |-> FALSE]

\* a task that has been created and has not finished
Active(rec) == rec.pc \notin {"idle", "done", "failed", "cancelled"}

\* the retry task the run is awaiting: the first one that is not done
Awaited(ts) == CHOOSE k \in DOMAIN ts : ts[k].st # "done" /\ \A j \in 1..(k - 1) : ts[j].st = "done"

\* Task.cancel() on a run: gather cancels every first-attempt task; in the retry
\* loop only the awaited retry task is cancelled, the others keep running
CancelRun(rec) ==
    IF rec.pc = "gather"
    THEN [rec EXCEPT !.pc = "cancelled",
                     !.tasks = [i \in DOMAIN rec.tasks |->
                                  IF rec.tasks[i].st = "done" THEN rec.tasks[i]
                                  ELSE [rec.tasks[i] EXCEPT !.st = "cancelled"]]]
    ELSE IF rec.pc = "retry" /\ ~AllDone(rec.retry_tasks)
    THEN LET k == Awaited(rec.retry_tasks)
         IN [rec EXCEPT !.pc = "cancelled",
                        !.retry_tasks[k].st = "cancelled",
                        !.retry_semaphore =
                            IF rec.retry_tasks[k].st \in {"probe", "sleep"}
                            THEN rec.retry_semaphore + 1 ELSE rec.retry_semaphore]
    ELSE [rec EXCEPT !.pc = "cancelled"]

\* the notification decision of run_check and the messages it sends: per group in
\* multi-group mode, through notify_failures of the default chat otherwise
GroupSlice(rs, group_domains) ==
    SelectSeq(rs, LAMBDA r : r.domain_name \in SeqToSet(group_domains))

GroupNotify(entry, results, new_errors, recovered, is_manual, notify_level) ==
    LET group_results == GroupSlice(results, entry.v)
        group_new_errors == GroupSlice(new_errors, entry.v)
        group_recovered == GroupSlice(recovered, entry.v)
        group_should_notify ==
            \/ is_manual
            \/ notify_level = "all"
            \/ notify_level = "error" /\ FailedCount(group_results) > 0
            \/ notify_level = "smart"
               /\ (group_new_errors # <<>> \/ group_recovered # <<>>)
    IN IF entry.v = <<>> \/ group_results = <<>> \/ ~group_should_notify THEN <<>>
       ELSE notify_failures(IF notify_level = "smart" /\ ~is_manual
                            THEN group_new_errors \o group_recovered
                            ELSE group_results,
                            notify_level = "error", is_manual, notify_level = "smart",
                            group_new_errors, group_recovered, entry.k)

RECURSIVE GroupsNotify(_, _, _, _, _, _)
GroupsNotify(map, results, new_errors, recovered, is_manual, notify_level) ==
    IF map = <<>> THEN <<>>
    ELSE GroupNotify(Head(map), results, new_errors, recovered, is_manual, notify_level)
         \o GroupsNotify(Tail(map), results, new_errors, recovered, is_manual,
                         notify_level)

\* run_check without its decision: the results always go to the summary
run_check_notify_undecided(map, results, new_errors, recovered, unack_count, is_manual, notify_level, batch_notify) ==
    notify_failures(results, FALSE, TRUE, FALSE, <<>>, <<>>, "default")

\* the counters of self.notifier after run_check's notifications: a group's
\* notification goes through a TelegramNotifier of its own, which is dropped
run_check_failure_count(count, map, results, new_errors, recovered, unack_count, is_manual, notify_level, batch_notify) ==
    LET should_notify ==
            \/ is_manual
            \/ notify_level = "all"
            \/ notify_level = "error" /\ FailedCount(results) > 0
            \/ notify_level = "smart" /\ (new_errors # <<>> \/ recovered # <<>>)
        results_to_notify ==
            IF is_manual \/ notify_level \in {"all", "error"} THEN results
            ELSE IF unack_count > 0 THEN results
            ELSE new_errors \o recovered
    IN IF map # <<>> \/ batch_notify \/ ~should_notify THEN count
       ELSE update_failure_count(count, IF notify_level = "smart" /\ ~is_manual
                                        THEN results_to_notify ELSE results)

run_check_notify(map, results, new_errors, recovered, unack_count, is_manual, notify_level, batch_notify) ==
    LET should_notify ==
            \/ is_manual
            \/ notify_level = "all"
            \/ notify_level = "error" /\ FailedCount(results) > 0
            \/ notify_level = "smart" /\ (new_errors # <<>> \/ recovered # <<>>)
        results_to_notify ==
            IF is_manual \/ notify_level \in {"all", "error"} THEN results
            ELSE IF unack_count > 0 THEN results
            ELSE new_errors \o recovered
    IN IF map # <<>>
       THEN GroupsNotify(map, results, new_errors, recovered, is_manual, notify_level)
       ELSE IF ~batch_notify /\ should_notify
       THEN notify_failures(IF notify_level = "smart" /\ ~is_manual
                            THEN results_to_notify ELSE results,
                            notify_level = "error", is_manual, notify_level = "smart",
                            new_errors, recovered, "default")
       ELSE <<>>

\* schedule_checks: at the head of the loop, after the sleep or right after an
\* overrun, create the task of the next cycle and await it
ScheduleCycle ==
    /\ scheduler \in {"sleeping", "looping"}
    /\ launched["sched"] < MaxCycles
    /\ scheduler' = "awaiting"
    /\ launched' = [launched EXCEPT !["sched"] = @ + 1]
    /\ run' = [run EXCEPT !["sched"] = [IdleRun EXCEPT !.pc = "spawned"]]
    /\ UNCHANGED <<config, bot, executing_commands, elapsed_seconds, overran_notices, failure_count, stop_call, fs, http,
                   checkerVars, trackerVars>>

\* a loop that sleeps after every cycle, however long the cycle took
SchedulerResume_sleeps(over) ==
    /\ scheduler = "awaiting"
    /\ run["sched"].pc \in {"done", "failed"}
    /\ elapsed_seconds' = IF over THEN "over" ELSE "under"
    /\ scheduler' = "sleeping"
    /\ UNCHANGED <<config, bot, launched, executing_commands, overran_notices, failure_count, stop_call, fs, http, run,
                   checkerVars, trackerVars>>

\* the awaited cycle ended. elapsed_seconds < max_cycle_seconds: sleep for the rest of
\* the interval; otherwise send the overrun warning and go round the loop at once
SchedulerResume(over) ==
    /\ scheduler = "awaiting"
    /\ run["sched"].pc \in {"done", "failed"}
    /\ elapsed_seconds' = IF over THEN "over" ELSE "under"
    /\ scheduler' = IF over THEN "looping" ELSE "sleeping"
    /\ overran_notices' = IF over THEN overran_notices + 1 ELSE overran_notices
    /\ UNCHANGED <<config, bot, launched, executing_commands, failure_count, stop_call, fs, http, run,
                   checkerVars, trackerVars>>

\* the awaited cycle was cancelled: CancelledError ends the while loop
SchedulerCancelled ==
    /\ scheduler = "awaiting"
    /\ run["sched"].pc = "cancelled"
    /\ scheduler' = "stopped"
    /\ UNCHANGED <<config, bot, launched, executing_commands, elapsed_seconds,
                   overran_notices, failure_count, stop_call, fs, http, run, checkerVars, trackerVars>>

\* cmd_check_now: refuse while the marker is set, else set it and create the task
CmdCheckNow ==
    /\ "check" \notin executing_commands
    /\ launched["manual"] < MaxManual
    /\ executing_commands' = executing_commands \cup {"check"}
    /\ launched' = [launched EXCEPT !["manual"] = @ + 1]
    /\ run' = [run EXCEPT !["manual"] = [IdleRun EXCEPT !.pc = "spawned"]]
    /\ UNCHANGED <<config, bot, scheduler, elapsed_seconds, overran_notices, failure_count, stop_call, fs, http,
                   checkerVars, trackerVars>>

\* a cleanup that removes the marker only when the callback has returned
CheckCleanup_on_return ==
    /\ run["manual"].pc = "done"
    /\ "check" \in executing_commands
    /\ executing_commands' = executing_commands \ {"check"}
    /\ UNCHANGED <<config, bot, scheduler, launched, elapsed_seconds, overran_notices, failure_count, stop_call, fs, http,
                   run, checkerVars, trackerVars>>

\* _execute_check_with_cleanup: the finally clause removes the marker, whether the
\* callback returned, raised or was cancelled
CheckCleanup ==
    /\ run["manual"].pc \in {"done", "failed", "cancelled"}
    /\ "check" \in executing_commands
    /\ executing_commands' = executing_commands \ {"check"}
    /\ UNCHANGED <<config, bot, scheduler, launched, elapsed_seconds, overran_notices, failure_count, stop_call, fs, http,
                   run, checkerVars, trackerVars>>

\* run_check up to the call of check_domains_batch: cancel self.check_task when it
\* is another task that is not done, read the endpoints, copy the settings to the
\* checker, announce a manual check
RunCheckStart(r) ==
    LET rd == ReadDomains
        run1 == IF r # "sched" /\ Active(run["sched"])
                THEN [run EXCEPT !["sched"] = CancelRun(run["sched"])]
                ELSE run
        domains == Dedup(rd.all_domains)
        started == IF r = "manual" /\ config.show_eta
                   THEN <<Msg("check_started", "default")>> ELSE <<>>
    IN /\ run[r].pc = "spawned"
       /\ IF rd.raised \/ rd.all_domains = <<>>
          THEN /\ run' = [run1 EXCEPT ![r].pc = IF rd.raised THEN "failed" ELSE "done"]
               /\ UNCHANGED <<max_concurrent, initial_concurrent, retry_count,
                              auto_adjust, PSUTIL_AVAILABLE, last_status>>
          ELSE /\ retry_count' = config.retry_count
               /\ max_concurrent' = config.max_concurrent
               /\ run' = [run1 EXCEPT ![r] =
                            [EnterBatch(run[r], domains, config.max_concurrent)
                                EXCEPT !.sent = started,
                                       !.callback = config.batch_notify,
                                       !.groups_domains_map = rd.groups_domains_map]]
               /\ UNCHANGED <<initial_concurrent, auto_adjust, PSUTIL_AVAILABLE,
                              last_status>>
       /\ closed_under' = closed_under \cap OnClient(run1)
       /\ UNCHANGED <<monitorVars, trackerVars>>

\* run_check after check_domains_batch returned: update the tracker, decide and send
\* the notifications; an exception ends the run without a notification
RunCheckFinish(r) ==
    LET rec == run[r]
        out == update_status(rec.all_results, current_errors, acknowledged_errors,
                             history, now, retention_days)
        unack == get_unacknowledged_errors(out.current_errors, out.acknowledged_errors)
    IN /\ rec.pc = "returned"
       /\ update_status_step(rec.all_results)
       /\ run' = [run EXCEPT ![r] =
                    IF out.raised THEN [rec EXCEPT !.pc = "failed"]
                    ELSE [rec EXCEPT !.pc = "done",
                                     !.sent = rec.sent \o
                                        run_check_notify(rec.groups_domains_map,
                                                         rec.all_results,
                                                         out.new_errors, out.recovered,
                                                         Len(unack), r = "manual",
                                                         config.notification_level,
                                                         config.batch_notify)]]
       /\ failure_count' =
             IF out.raised THEN failure_count
             ELSE run_check_failure_count(failure_count, rec.groups_domains_map,
                                          rec.all_results, out.new_errors, out.recovered,
                                          Len(unack), r = "manual",
                                          config.notification_level, config.batch_notify)
       /\ UNCHANGED <<config, bot, scheduler, launched, executing_commands,
                      elapsed_seconds, overran_notices, stop_call, fs, http, checkerVars>>

(***************************************************************************)
(* Specifications                                                          *)
(***************************************************************************)
BatchUrlLists == {<<E_a, E_b>>, <<E_ax, E_wss>>, <<E_ws, E_bad, E_a>>}

\* DomainChecker.__init__ with any settings
CheckerInit ==
    /\ max_concurrent \in 1..MaxConcurrent
    /\ initial_concurrent \in 1..MaxConcurrent
    /\ retry_count \in 0..MaxRetry
    /\ auto_adjust \in BOOLEAN
    /\ PSUTIL_AVAILABLE \in BOOLEAN
    /\ last_status = <<>>
    /\ closed_under = {}

\* a checker nobody uses
CheckerIdle ==
    /\ max_concurrent = 1
    /\ initial_concurrent = 1
    /\ retry_count = 0
    /\ auto_adjust = FALSE
    /\ PSUTIL_AVAILABLE = FALSE
    /\ last_status = <<>>
    /\ closed_under = {}

\* a tracker nobody uses
TrackerIdle ==
    /\ retention_days = 30
    /\ now = 0
    /\ current_errors = <<>>
    /\ previous_errors = <<>>
    /\ history = <<>>
    /\ acknowledged_errors = {}
    /\ last_op = "load_history"
    /\ ret = NoReturn
    /\ updates = 0

Config(domains, rc, mc, batch_notify, level) ==
    [domains |-> domains, retry_count |-> rc, max_concurrent |-> mc,
     batch_notify |-> batch_notify, show_eta |-> TRUE, notification_level |-> level,
     timeout_seconds |-> 10]

\* a monitor without scheduler, commands or runs
MonitorIdle ==
    /\ config = Config(<<>>, 0, 1, FALSE, "smart")
    /\ bot = [has_groups_config |-> FALSE, groups_config |-> <<>>]
    /\ scheduler = "stopped"
    /\ launched = [r \in Runs |-> 0]
    /\ executing_commands = {}
    /\ elapsed_seconds = "none"
    /\ overran_notices = 0
    /\ failure_count = <<>>
    /\ stop_call = NoStop
    /\ fs = SavedConfig
    /\ http = HttpOff

NextTracker ==
    \/ TrackerUpdate /\ UNCHANGED <<checkerVars, run, monitorVars>>
    \/ TrackerAck /\ UNCHANGED <<checkerVars, run, monitorVars>>
    \/ Tick /\ UNCHANGED <<checkerVars, run, monitorVars>>

\* the tracker after construction, nothing else running
TrackerSpecInit ==
    /\ TrackerInit
    /\ CheckerIdle
    /\ MonitorIdle
    /\ run = [r \in Runs |-> IdleRun]

SpecTracker == TrackerSpecInit /\ [][NextTracker]_vars

\* one call of check_domains_batch(urls) without callbacks
BatchInit ==
    /\ TrackerIdle
    /\ MonitorIdle
    /\ CheckerInit
    /\ \E urls \in BatchUrlLists :
          run = [r \in Runs |-> IF r = "manual"
                                THEN EnterBatch(IdleRun, urls, max_concurrent)
                                ELSE IdleRun]

SpecBatch == BatchInit /\ [][NextBatch]_vars

\* a cache and a history as long operation leaves them: n entries of distinct hosts
HostName(n) == "h" \o ToString(n) \o ".test"
FilledCache(n) == [i \in 1..n |-> [k |-> Text("https://", HostName(i), ""), v |-> TRUE]]
FilledHistory(n) ==
    [i \in 1..n |-> DomainHistory(Text("", HostName(i), ""), TIMEOUT, TIMEOUT, 0)]

\* a monitor that has run for long: the cache and the history at or just under the cap
CapsInit ==
    /\ retention_days = 30
    /\ now = 0
    /\ current_errors = <<>>
    /\ previous_errors = <<>>
    /\ \E n \in {max_records - 1, max_records} : history = FilledHistory(n)
    /\ acknowledged_errors = {}
    /\ last_op = "load_history"
    /\ ret = NoReturn
    /\ updates = 0
    /\ max_concurrent = 1
    /\ initial_concurrent = 1
    /\ retry_count = 0
    /\ auto_adjust = FALSE
    /\ PSUTIL_AVAILABLE = FALSE
    /\ \E n \in {max_status_cache - 1, max_status_cache} : last_status = FilledCache(n)
    /\ closed_under = {}
    /\ run = [r \in Runs |-> IdleRun]
    /\ MonitorIdle

\* one call of _update_status_cache(url, status)
UpdateStatusCache(url, status) ==
    /\ last_status' = _update_status_cache(last_status, url, status)
    /\ UNCHANGED <<max_concurrent, initial_concurrent, retry_count, auto_adjust,
                   PSUTIL_AVAILABLE, closed_under, run, trackerVars, monitorVars>>

\* one call of add_to_history(result, is_recovery)
AddToHistory(result, is_recovery) ==
    /\ updates < MaxInserts
    /\ history' = add_to_history(history, result, is_recovery, now)
    /\ last_op' = "add_to_history"
    /\ updates' = updates + 1
    /\ UNCHANGED <<current_errors, previous_errors, acknowledged_errors,
                   retention_days, now, ret, checkerVars, run, monitorVars>>

NextCaps ==
    \/ \E t \in {E_a, E_b}, status \in BOOLEAN :
          UpdateStatusCache(NormalizeUrl(t, FALSE), status)
    \/ \E is_recovery \in BOOLEAN :
          AddToHistory(ProbeResult(E_a, IF is_recovery THEN SUCCESS ELSE TIMEOUT),
                       is_recovery)

SpecCaps == CapsInit /\ [][NextCaps]_vars

\* notify_failures called directly, as a scheduled check (r = "sched") or as a manual
\* one: the record of r keeps the results handed over and the messages sent
NotifyFailures(r, results, quiet_on_success) ==
    /\ run' = [run EXCEPT ![r].all_results = results,
                          ![r].sent = notify_failures(results, quiet_on_success,
                                                      r = "manual", FALSE, <<>>, <<>>,
                                                      "default")]
    /\ failure_count' = update_failure_count(failure_count, results)
    /\ \A i \in DOMAIN failure_count' : failure_count'[i].v <= MaxFailures
    /\ UNCHANGED <<checkerVars, trackerVars, config, bot, scheduler, launched,
                   executing_commands, elapsed_seconds, overran_notices, stop_call, fs, http>>

NotifierInit ==
    /\ TrackerIdle
    /\ CheckerIdle
    /\ MonitorIdle
    /\ run = [r \in Runs |-> IdleRun]

NextNotifier ==
    \E r \in Runs, domains \in TrackerDomainLists, quiet_on_success \in BOOLEAN :
        \E results \in ResultsFor(domains, TrackerStatuses) :
            NotifyFailures(r, results, quiet_on_success)

SpecNotifier == NotifierInit /\ [][NextNotifier]_vars

\* the configurations and bots of the running monitor
MonitorDomains == <<E_a, E_b>>
NotificationLevels == {"all", "error", "smart"}
NoGroupsConfig == [has_groups_config |-> FALSE, groups_config |-> <<>>]
EmptyGroupsConfig == [has_groups_config |-> TRUE, groups_config |-> <<>>]
OneGroup == [has_groups_config |-> TRUE,
             groups_config |-> <<[k |-> "g1", v |-> MonitorDomains]>>]

\* retries switched off, and the default of check.retry_count
MonitorRetryCounts == {0, 2}

\* what the network answers while the monitor runs
MonitorRaw == {"ok", "timeout"}

\* the process after initialize_components: schedule_checks has created the task of
\* its first cycle
ProcessInit(configs, bots) ==
    /\ TrackerIdle
    /\ config \in configs
    /\ max_concurrent = config.max_concurrent
    /\ initial_concurrent = config.max_concurrent
    /\ retry_count = config.retry_count
    /\ auto_adjust = FALSE
    /\ PSUTIL_AVAILABLE = FALSE
    /\ last_status = <<>>
    /\ closed_under = {}
    /\ bot \in bots
    /\ scheduler = "awaiting"
    /\ launched = [r \in Runs |-> IF r = "sched" THEN 1 ELSE 0]
    /\ executing_commands = {}
    /\ elapsed_seconds = "none"
    /\ overran_notices = 0
    /\ failure_count = <<>>
    /\ stop_call = NoStop
    /\ fs = SavedConfig
    /\ http = HttpOff
    /\ run = [r \in Runs |-> IF r = "sched" THEN [IdleRun EXCEPT !.pc = "spawned"]
                              ELSE IdleRun]

\* scheduler and /check side by side, state-change notifications, the interval
\* longer than a cycle
MonitorInit ==
    ProcessInit({Config(MonitorDomains, rc, mc, FALSE, "smart") :
                    rc \in MonitorRetryCounts, mc \in 1..MaxConcurrent},
                {NoGroupsConfig, OneGroup})

NextMonitor ==
    \/ ScheduleCycle
    \/ SchedulerResume(FALSE)
    \/ SchedulerCancelled
    \/ CmdCheckNow
    \/ CheckCleanup
    \/ \E r \in Runs : RunCheckStart(r)
    \/ \E r \in Runs : RunCheckFinish(r)
    \/ \E r \in Runs : BatchStart(r, 50, 50)
    \/ \E r \in Runs : ProbeStart(r)
    \/ \E r \in Runs, raw \in MonitorRaw :
          \E i \in DOMAIN run[r].tasks : ProbeFinish(r, i, raw)
    \/ \E r \in Runs : GatherDone(r)
    \/ \E r \in Runs : RetryWake(r)
    \/ \E r \in Runs : RetryStart(r)
    \/ \E r \in Runs, raw \in MonitorRaw :
          \E k \in DOMAIN run[r].retry_tasks : RetryFinish(r, k, raw)
    \/ \E r \in Runs : \E k \in DOMAIN run[r].retry_tasks : RetryResume(r, k)
    \/ \E r \in Runs : RetryDone(r)
    \/ \E r \in Runs : PauseDone(r)
    \/ \E r \in Runs : BatchReturn(r)

SpecMonitor == MonitorInit /\ [][NextMonitor]_vars

\* every notification setting, the checks one after the other: a /check is given
\* while the scheduler sleeps and the next cycle starts after it has ended
NotifyInit ==
    ProcessInit({Config(MonitorDomains, 0, MaxConcurrent, batch_notify, level) :
                    batch_notify \in BOOLEAN, level \in NotificationLevels},
                {NoGroupsConfig, EmptyGroupsConfig, OneGroup})

NextNotify ==
    \/ ScheduleCycle /\ ~Active(run["manual"])
    \/ \E over \in BOOLEAN : SchedulerResume(over)
    \/ CmdCheckNow /\ scheduler = "sleeping"
    \/ CheckCleanup
    \/ \E r \in Runs : RunCheckStart(r)
    \/ \E r \in Runs : RunCheckFinish(r)
    \/ \E r \in Runs : BatchStart(r, 50, 50)
    \/ \E r \in Runs : ProbeStart(r)
    \/ \E r \in Runs, raw \in MonitorRaw :
          \E i \in DOMAIN run[r].tasks : ProbeFinish(r, i, raw)
    \/ \E r \in Runs : GatherDone(r)
    \/ \E r \in Runs : BatchReturn(r)

SpecNotify == NotifyInit /\ [][NextNotify]_vars

\* the scheduler loop with /check commands at any moment, retries switched off.
\* The event loop runs every task that is ready and every timer that is due; only
\* the command is up to the user.
SchedulerInit ==
    ProcessInit({Config(MonitorDomains, 0, mc, batch_notify, "smart") :
                    mc \in 1..MaxConcurrent, batch_notify \in BOOLEAN},
                {EmptyGroupsConfig, OneGroup})

SchedulerSteps ==
    \/ ScheduleCycle
    \/ \E over \in BOOLEAN : SchedulerResume(over)
    \/ SchedulerCancelled
    \/ CheckCleanup
    \/ \E r \in Runs : RunCheckStart(r)
    \/ \E r \in Runs : RunCheckFinish(r)
    \/ \E r \in Runs : BatchStart(r, 50, 50)
    \/ \E r \in Runs : ProbeStart(r)
    \/ \E r \in Runs, raw \in MonitorRaw :
          \E i \in DOMAIN run[r].tasks : ProbeFinish(r, i, raw)
    \/ \E r \in Runs : GatherDone(r)
    \/ \E r \in Runs : PauseDone(r)
    \/ \E r \in Runs : BatchReturn(r)

NextScheduler ==
    \/ CmdCheckNow
    \/ SchedulerSteps

SpecScheduler ==
    SchedulerInit /\ [][NextScheduler]_vars /\ WF_vars(SchedulerSteps)

(***************************************************************************)
(* DomainMonitor.stop while the scheduler runs its cycles                  *)
(***************************************************************************)
\* a stop that leaves the cycle in flight alone unless it is forced
Stop_waits_for_cycle(force) ==
    /\ stop_call.pc = "none"
    /\ run' = [run EXCEPT !["sched"] = IF force /\ Active(@) THEN CancelRun(@) ELSE @]
    /\ scheduler' = "stopped"
    /\ stop_call' = [pc |-> IF force THEN "returned" ELSE "draining", force |-> force]
    /\ closed_under' = closed_under \cap OnClient(run')
    /\ UNCHANGED <<config, bot, launched, executing_commands, elapsed_seconds,
                   overran_notices, failure_count, fs, http, max_concurrent,
                   initial_concurrent, retry_count, auto_adjust, PSUTIL_AVAILABLE,
                   last_status, trackerVars>>

\* stop(force): check_task (the scheduled cycle) and schedule_task are cancelled when
\* they are not done; a forced stop returns then, the other one awaits the cancelled
\* tasks with wait_for(gather(...), timeout=2.0)
Stop(force) ==
    /\ stop_call.pc = "none"
    /\ run' = [run EXCEPT !["sched"] = IF Active(@) THEN CancelRun(@) ELSE @]
    /\ scheduler' = "stopped"
    /\ stop_call' = [pc |-> IF force THEN "returned" ELSE "draining", force |-> force]
    /\ closed_under' = closed_under \cap OnClient(run')
    /\ UNCHANGED <<config, bot, launched, executing_commands, elapsed_seconds,
                   overran_notices, failure_count, fs, http, max_concurrent,
                   initial_concurrent, retry_count, auto_adjust, PSUTIL_AVAILABLE,
                   last_status, trackerVars>>

\* the wait of a stop that is not forced ends: the tasks have ended, or 2 s have passed
StopReturn(timed_out) ==
    /\ stop_call.pc = "draining"
    /\ stop_call' = [stop_call EXCEPT !.pc = IF timed_out THEN "timed_out" ELSE "returned"]
    /\ UNCHANGED <<config, bot, scheduler, launched, executing_commands, elapsed_seconds,
                   overran_notices, failure_count, fs, http, run, checkerVars, trackerVars>>

StopInit ==
    ProcessInit({Config(MonitorDomains, 0, MaxConcurrent, FALSE, level) :
                    level \in {"smart", "all"}}, {OneGroup})

NextStop ==
    \/ stop_call.pc = "none" /\ NextNotify
    \/ \E force \in BOOLEAN : Stop(force)
    \/ \E timed_out \in BOOLEAN : StopReturn(timed_out)

SpecStop == StopInit /\ [][NextStop]_vars

(***************************************************************************)
(* A /check from the command to the end of its task, with the monitor      *)
(* stopping and the event loop closing at any moment                       *)
(***************************************************************************)
\* asyncio.run() ends after run() has returned: the tasks still on the loop, the
\* one of _execute_check_with_cleanup among them, are cancelled
LoopTeardown ==
    /\ stop_call.pc \in {"returned", "timed_out"}
    /\ Active(run["manual"])
    /\ run' = [run EXCEPT !["manual"] = CancelRun(@)]
    /\ closed_under' = closed_under \cap OnClient(run')
    /\ UNCHANGED <<config, bot, scheduler, launched, executing_commands, elapsed_seconds,
                   overran_notices, failure_count, stop_call, fs, http, max_concurrent,
                   initial_concurrent, retry_count, auto_adjust, PSUTIL_AVAILABLE,
                   last_status, trackerVars>>

ManualInit ==
    ProcessInit({Config(MonitorDomains, 0, MaxConcurrent, FALSE, "smart")},
                {NoGroupsConfig, OneGroup})

\* what the event loop does by itself: the scheduler and the tasks of the two checks
ManualSteps ==
    \/ ScheduleCycle /\ ~Active(run["manual"])
    \/ \E over \in BOOLEAN : SchedulerResume(over)
    \/ CheckCleanup
    \/ \E r \in Runs : RunCheckStart(r)
    \/ \E r \in Runs : RunCheckFinish(r)
    \/ \E r \in Runs : BatchStart(r, 50, 50)
    \/ \E r \in Runs : ProbeStart(r)
    \/ \E r \in Runs, raw \in MonitorRaw :
          \E i \in DOMAIN run[r].tasks : ProbeFinish(r, i, raw)
    \/ \E r \in Runs : GatherDone(r)
    \/ \E r \in Runs : BatchReturn(r)

NextManual ==
    \/ stop_call.pc = "none" /\ scheduler = "sleeping" /\ CmdCheckNow
    \/ ManualSteps
    \/ \E force \in BOOLEAN : Stop(force)
    \/ \E timed_out \in BOOLEAN : StopReturn(timed_out)
    \/ LoopTeardown

\* the event loop runs every task that is ready; commands, the stop and the end of
\* the loop are up to the user
SpecManual == ManualInit /\ [][NextManual]_vars /\ WF_vars(ManualSteps)

(***************************************************************************)
(* ConfigManager.set and save_config with a disk that can fail             *)
(***************************************************************************)
SaveFailures == {"none", "rename", "open", "dump", "unlink"}

\* set('check.max_concurrent', n): the value is stored in memory, then saved; an
\* exception that leaves save_config is caught by set
ConfigSet(n, fail_at) ==
    /\ config' = [config EXCEPT !.max_concurrent = n]
    /\ fs' = save_config(fs, ConfigContent(n), fail_at)
    /\ UNCHANGED <<bot, scheduler, launched, executing_commands, elapsed_seconds,
                   overran_notices, failure_count, stop_call, http, checkerVars, run,
                   trackerVars>>

\* the manager after __init__: config.json loaded, or not there yet at a first start
ConfigFileInit ==
    /\ TrackerIdle
    /\ CheckerIdle
    /\ config = Config(<<>>, 0, 1, FALSE, "smart")
    /\ bot = [has_groups_config |-> FALSE, groups_config |-> <<>>]
    /\ scheduler = "stopped"
    /\ launched = [r \in Runs |-> 0]
    /\ executing_commands = {}
    /\ elapsed_seconds = "none"
    /\ overran_notices = 0
    /\ failure_count = <<>>
    /\ stop_call = NoStop
    /\ \E file \in {"absent", "v0"}, replace \in BOOLEAN :
          fs = [SavedConfig EXCEPT !.config_file = file, !.replace = replace]
    /\ http = HttpOff
    /\ run = [r \in Runs |-> IdleRun]

NextConfigFile ==
    \E n \in {2, 5, 50, 100}, fail_at \in SaveFailures : ConfigSet(n, fail_at)

SpecConfigFile == ConfigFileInit /\ [][NextConfigFile]_vars

(***************************************************************************)
(* HttpApiServer: the security middleware in front of POST /sendMsg        *)
(***************************************************************************)

\* the limit of _is_rate_limited, kept small
RequestsPerMinute == 2

\* the key values a server is configured with: the default '' and a generated one
ApiKeys == {"", "secret"}

\* what a header or a query parameter of a request holds
Carried == {"absent", "", "secret", "wrong"}

\* a POST /sendMsg request: the Authorization header (scheme and token), the
\* X-API-Key header, the api_key query parameter and the msg field
Requests ==
    {request \in [scheme : {"absent", "Basic", "Bearer"}, token : {"", "secret", "wrong"},
                  x_api_key : Carried, api_key : Carried, msg : {"absent", "hi"}] :
        request.scheme # "Bearer" => request.token = ""}

\* mapping.get(name, ''): an absent entry reads as the empty string
get(value) == IF value = "absent" THEN "" ELSE value

\* _is_authenticated
_is_authenticated(auth_enabled, api_key, request) ==
    IF ~auth_enabled THEN TRUE
    ELSE IF request.scheme = "Bearer" THEN request.token = api_key
    ELSE IF get(request.x_api_key) = api_key THEN TRUE
    ELSE get(request.api_key) = api_key

\* _is_rate_limited: TRUE when this minute's requests reached the limit
_is_rate_limited(rate_limit_enabled, request_counts) ==
    rate_limit_enabled /\ request_counts >= RequestsPerMinute

\* handle_send_message: the status it answers with
handle_send_message(request, sent) ==
    IF request.msg = "absent" \/ request.msg = "" THEN 400
    ELSE IF sent THEN 200 ELSE 500

\* security_middleware: 403, 429, 401 or the handler's own answer
security_middleware(server, request, ip_allowed, sent) ==
    IF ~ip_allowed THEN [status |-> 403, handled |-> FALSE, request |-> request]
    ELSE IF _is_rate_limited(server.rate_limit_enabled, server.request_counts)
    THEN [status |-> 429, handled |-> FALSE, request |-> request]
    ELSE IF ~_is_authenticated(server.auth_enabled, server.api_key, request)
    THEN [status |-> 401, handled |-> FALSE, request |-> request]
    ELSE [status |-> handle_send_message(request, sent), handled |-> TRUE,
          request |-> request]

\* one POST /sendMsg through the middleware; _is_rate_limited records the request
\* when it lets it through
HandleRequest(request, ip_allowed, sent) ==
    /\ http' = [http EXCEPT
          !.request_counts =
              IF ip_allowed /\ http.rate_limit_enabled /\ @ < RequestsPerMinute
              THEN @ + 1 ELSE @,
          !.response = security_middleware(http, request, ip_allowed, sent)]
    /\ UNCHANGED <<config, bot, scheduler, launched, executing_commands, elapsed_seconds,
                   overran_notices, failure_count, stop_call, fs, checkerVars, run,
                   trackerVars>>

\* a minute passes: _is_rate_limited drops the recorded requests
MinutePasses ==
    /\ http.request_counts > 0
    /\ http' = [http EXCEPT !.request_counts = 0]
    /\ UNCHANGED <<config, bot, scheduler, launched, executing_commands, elapsed_seconds,
                   overran_notices, failure_count, stop_call, fs, checkerVars, run,
                   trackerVars>>

\* a server loaded from http_api.auth and http_api.rate_limit
HttpInit ==
    /\ TrackerIdle
    /\ CheckerIdle
    /\ config = Config(<<>>, 0, 1, FALSE, "smart")
    /\ bot = [has_groups_config |-> FALSE, groups_config |-> <<>>]
    /\ scheduler = "stopped"
    /\ launched = [r \in Runs |-> 0]
    /\ executing_commands = {}
    /\ elapsed_seconds = "none"
    /\ overran_notices = 0
    /\ failure_count = <<>>
    /\ stop_call = NoStop
    /\ fs = SavedConfig
    /\ run = [r \in Runs |-> IdleRun]
    /\ \E auth_enabled \in BOOLEAN, api_key \in ApiKeys, rate_limit_enabled \in BOOLEAN :
          http = [HttpOff EXCEPT !.auth_enabled = auth_enabled, !.api_key = api_key,
                                 !.rate_limit_enabled = rate_limit_enabled]

NextHttp ==
    \/ \E request \in Requests, ip_allowed \in BOOLEAN, sent \in BOOLEAN :
          HandleRequest(request, ip_allowed, sent)
    \/ MinutePasses

SpecHttp == HttpInit /\ [][NextHttp]_vars

(***************************************************************************)
(* The adaptive controller alone, for every initial concurrency            *)
(***************************************************************************)
MaxInitial == 200

\* the values /concurrent stores while the monitor runs
ConcurrentSettings == {2, 50}

\* initialize(): the checker is built with check.max_concurrent
ControllerInit ==
    /\ TrackerIdle
    /\ initial_concurrent \in 1..MaxInitial
    /\ max_concurrent = initial_concurrent
    /\ config = Config(<<>>, 0, initial_concurrent, FALSE, "smart")
    /\ bot = [has_groups_config |-> FALSE, groups_config |-> <<>>]
    /\ scheduler = "stopped"
    /\ launched = [r \in Runs |-> 0]
    /\ executing_commands = {}
    /\ elapsed_seconds = "none"
    /\ overran_notices = 0
    /\ failure_count = <<>>
    /\ stop_call = NoStop
    /\ fs = SavedConfig
    /\ http = HttpOff
    /\ retry_count = 0
    /\ auto_adjust = TRUE
    /\ PSUTIL_AVAILABLE = TRUE
    /\ last_status = <<>>
    /\ closed_under = {}
    /\ run = [r \in Runs |-> IdleRun]

\* one call of _adjust_concurrent_by_resources() with the readings psutil gives
AdjustConcurrent(cpu, mem) ==
    /\ max_concurrent' = _adjust_concurrent_by_resources(max_concurrent, initial_concurrent,
                                                         auto_adjust, PSUTIL_AVAILABLE,
                                                         cpu, mem)
    /\ closed_under' = IF max_concurrent' # max_concurrent
                       THEN close_client(closed_under, run) ELSE closed_under
    /\ UNCHANGED <<initial_concurrent, retry_count, auto_adjust, PSUTIL_AVAILABLE,
                   last_status, run, trackerVars, monitorVars>>

\* /concurrent n: config_manager.set('check.max_concurrent', n)
CmdSetConcurrent(concurrent) ==
    /\ config' = [config EXCEPT !.max_concurrent = concurrent]
    /\ fs' = save_config(save_config(fs, ConfigContent(concurrent), "none"),
                         ConfigContent(concurrent), "none")
    /\ UNCHANGED <<bot, scheduler, launched, executing_commands, elapsed_seconds,
                   overran_notices, failure_count, stop_call, http, checkerVars, run,
                   trackerVars>>

\* run_check copies the settings of the cycle to the checker
UpdateCheckerSettings ==
    /\ retry_count' = config.retry_count
    /\ max_concurrent' = config.max_concurrent
    /\ UNCHANGED <<initial_concurrent, auto_adjust, PSUTIL_AVAILABLE, last_status,
                   closed_under, run, trackerVars, monitorVars>>

NextController ==
    \/ \E cpu \in CpuReadings, mem \in MemReadings : AdjustConcurrent(cpu, mem)
    \/ \E concurrent \in ConcurrentSettings : CmdSetConcurrent(concurrent)
    \/ UpdateCheckerSettings

SpecController == ControllerInit /\ [][NextController]_vars

(***************************************************************************)
(* One check_domains_batch call in quick mode: 51 endpoints                *)
(***************************************************************************)
\* a WebSocket endpoint, a.test and 49 more hosts
QuickUrls == <<E_wss, E_a>> \o [n \in 1..(QuickThreshold - 1) |-> Text("", HostName(n), "")]

QuickInit ==
    /\ TrackerIdle
    /\ max_concurrent = MaxConcurrent
    /\ initial_concurrent = MaxConcurrent
    /\ retry_count \in 1..2
    /\ auto_adjust = FALSE
    /\ PSUTIL_AVAILABLE = FALSE
    /\ last_status = <<>>
    /\ closed_under = {}
    /\ \E t \in {3, 10} :
          config = [Config(QuickUrls, retry_count, MaxConcurrent, FALSE, "smart")
                       EXCEPT !.timeout_seconds = t]
    /\ bot = EmptyGroupsConfig
    /\ scheduler = "stopped"
    /\ launched = [r \in Runs |-> IF r = "manual" THEN 1 ELSE 0]
    /\ executing_commands = {"check"}
    /\ elapsed_seconds = "none"
    /\ overran_notices = 0
    /\ failure_count = <<>>
    /\ stop_call = NoStop
    /\ fs = SavedConfig
    /\ http = HttpOff
    /\ run = [r \in Runs |-> IF r = "manual"
                              THEN EnterBatch(IdleRun, QuickUrls, MaxConcurrent)
                              ELSE IdleRun]

\* the first two endpoints answer or time out, the others answer
NextQuick ==
    \/ BatchStart("manual", 50, 50)
    \/ ProbeStart("manual")
    \/ \E raw \in {"ok", "timeout", "ws_open", "ws_timeout"} :
          \E i \in DOMAIN run["manual"].tasks :
              /\ raw = "timeout" => run["manual"].tasks[i].url = E_a
              /\ ProbeFinish("manual", i, raw)
    \/ GatherDone("manual")
    \/ RetryWake("manual")
    \/ RetryStart("manual")
    \/ \E raw \in {"ok", "timeout", "ws_open", "ws_timeout"} :
          \E k \in DOMAIN run["manual"].retry_tasks : RetryFinish("manual", k, raw)
    \/ RetryDone("manual")
    \/ PauseDone("manual")
    \/ BatchReturn("manual")

SpecQuick == QuickInit /\ [][NextQuick]_vars

(***************************************************************************)
(* TelegramBot: listen_for_commands, process_update and the command tasks. *)
(* bot.tasks lists the tasks the bot created, in the order of creation; the *)
(* event loop runs the ready ones first in, first out.                     *)
(***************************************************************************)
blocking_commands == {"/check", "/reload", "/stop", "/restart"}

\* the commands sent to the bot here (/stop and /restart end the process)
RequestedCommands == {"/check", "/reload"}

\* the task the event loop runs next
FirstReady ==
    IF \E i \in DOMAIN bot.tasks : bot.tasks[i].st = "ready"
    THEN CHOOSE i \in DOMAIN bot.tasks :
             /\ bot.tasks[i].st = "ready"
             /\ \A j \in 1..(i - 1) : bot.tasks[j].st # "ready"
    ELSE 0

\* listen_for_commands: get_updates answers with a batch of messages, and a
\* process_update task is created for each; the tasks created before have run
\* while get_updates was awaited
GetUpdates(messages) ==
    /\ FirstReady = 0
    /\ Len(SelectSeq(bot.tasks, LAMBDA t : t.kind = "process_update")) + Len(messages)
           <= MaxRequests
    /\ bot' = [bot EXCEPT !.tasks =
                  @ \o [i \in DOMAIN messages |->
                           [kind |-> "process_update", command |-> messages[i],
                            st |-> "ready", batch |-> Len(bot.tasks) + 1]]]
    /\ UNCHANGED <<config, scheduler, launched, executing_commands, elapsed_seconds,
                   overran_notices, failure_count, stop_call, fs, http, run, checkerVars, trackerVars>>

\* process_update of an authorized blocking command: refuse when the command is
\* in executing_commands, else create the task of execute_command_wrapper
ProcessUpdate ==
    LET i == FirstReady
    IN /\ i # 0
       /\ bot.tasks[i].kind = "process_update"
       /\ bot' = [bot EXCEPT !.tasks =
                     IF bot.tasks[i].command \in blocking_commands
                        /\ bot.tasks[i].command \in executing_commands
                     THEN [@ EXCEPT ![i].st = "refused"]
                     ELSE Append([@ EXCEPT ![i].st = "done"],
                                 [bot.tasks[i] EXCEPT !.kind = "wrapper"])]
       /\ UNCHANGED <<config, scheduler, launched, executing_commands, elapsed_seconds,
                      overran_notices, failure_count, stop_call, fs, http, run, checkerVars, trackerVars>>

\* execute_command_wrapper up to the first suspension of the handler: the marker
\* is added and the handler is called.  cmd_reload awaits its reply and
\* reload_callback.  cmd_check_now awaits its refusal when "check" is marked;
\* otherwise it marks "check", creates the task of the manual check and returns,
\* and the wrapper's finally clause discards "/check".
WrapperStart ==
    LET i == FirstReady
        command == bot.tasks[i].command
        accepted == command = "/check" /\ "check" \notin executing_commands
    IN /\ i # 0
       /\ bot.tasks[i].kind = "wrapper"
       /\ bot' = [bot EXCEPT !.tasks[i].st = IF accepted THEN "done" ELSE "running"]
       /\ executing_commands' =
              IF accepted THEN (executing_commands \cup {"check"}) \ {command}
              ELSE executing_commands \cup {command}
       /\ launched' = IF accepted THEN [launched EXCEPT !["manual"] = @ + 1]
                      ELSE launched
       /\ run' = IF accepted
                 THEN [run EXCEPT !["manual"] = [IdleRun EXCEPT !.pc = "spawned"]]
                 ELSE run
       /\ UNCHANGED <<config, scheduler, elapsed_seconds, overran_notices, failure_count, stop_call, fs, http,
                      checkerVars, trackerVars>>

\* the handler returns and the wrapper's finally clause discards the marker
HandlerDone(i) ==
    /\ bot.tasks[i].kind = "wrapper"
    /\ bot.tasks[i].st = "running"
    /\ bot' = [bot EXCEPT !.tasks[i].st = "done"]
    /\ executing_commands' = executing_commands \ {bot.tasks[i].command}
    /\ UNCHANGED <<config, scheduler, launched, elapsed_seconds, overran_notices, failure_count, stop_call, fs, http, run,
                   checkerVars, trackerVars>>

\* the bot listening, no endpoint configured, the scheduler not started
DispatcherInit ==
    /\ TrackerIdle
    /\ CheckerIdle
    /\ run = [r \in Runs |-> IdleRun]
    /\ config = Config(<<>>, 0, 1, FALSE, "smart")
    /\ bot = [has_groups_config |-> FALSE, groups_config |-> <<>>, tasks |-> <<>>]
    /\ scheduler = "stopped"
    /\ launched = [r \in Runs |-> 0]
    /\ executing_commands = {}
    /\ elapsed_seconds = "none"
    /\ overran_notices = 0
    /\ failure_count = <<>>
    /\ stop_call = NoStop
    /\ fs = SavedConfig
    /\ http = HttpOff

NextDispatcher ==
    \/ \E n \in 1..2 : \E messages \in [1..n -> RequestedCommands] : GetUpdates(messages)
    \/ ProcessUpdate
    \/ WrapperStart
    \/ \E i \in DOMAIN bot.tasks : HandlerDone(i)
    \/ RunCheckStart("manual")
    \/ CheckCleanup

SpecDispatcher == DispatcherInit /\ [][NextDispatcher]_vars

(***************************************************************************)
(* The monitor in multi-group mode: bot.groups_config holds two groups     *)
(***************************************************************************)
\* bare endpoints; a scheme-prefixed endpoint in the first group; the two texts
\* of one host in different groups
GroupConfigs ==
    {[has_groups_config |-> TRUE,
      groups_config |-> <<[k |-> "g1", v |-> <<pair[1]>>], [k |-> "g2", v |-> <<pair[2]>>]>>] :
         pair \in {<<E_a, E_b>>, <<E_ax, E_b>>, <<E_a, E_ax>>}}

GroupsInit ==
    ProcessInit({Config(MonitorDomains, 0, MaxConcurrent, FALSE, level) :
                    level \in NotificationLevels},
                GroupConfigs)

SpecGroups == GroupsInit /\ [][NextNotify]_vars

(***************************************************************************)
(* The notifier's formatter and the two senders alone, on bounded lists    *)
(***************************************************************************)
\* s repeated n times
RECURSIVE Repeat(_, _)
Repeat(s, n) ==
    IF n = 0 THEN ""
    ELSE IF n % 2 = 1 THEN s \o Repeat(s, n - 1)
    ELSE LET half == Repeat(s, n \div 2) IN half \o half

\* a host name of n characters
LongName(n) == Repeat("x", n - 5) \o ".test"

\* name lengths: an everyday one, two that fill a page together, one that
\* leaves no room for the time information, one longer than a message
NameLengths == {6, 1700, 1701, 3950, 4100}

\* the (status, status_code) pairs of a result; 0 is "no status code"
ResultKinds ==
    {<<st, 0>> : st \in CheckStatus \ {HTTP_ERROR}}
        \cup {<<HTTP_ERROR, c>> : c \in {400, 401, 403, 404, 418, 429, 451, 500, 501, 502,
                                         503, 504, 519, 520, 522, 526, 527}}

PageKinds == {<<SUCCESS, 0>>, <<TIMEOUT, 0>>, <<HTTP_ERROR, 522>>, <<HTTP_ERROR, 501>>}

FormatterResult(n, kind) ==
    IF kind[2] = 0
    THEN CheckResult(Text("", LongName(n), ""), Text("https://", LongName(n), ""), kind[1])
    ELSE [status_code |-> kind[2]]
             @@ CheckResult(Text("", LongName(n), ""), Text("https://", LongName(n), ""),
                            kind[1])

\* result lists of distinct endpoints: up to two results of any kind, or three of
\* the kinds that share and split pages
MaxListed == 3
FormatterResults ==
    LET lists(len, lengths, kinds) ==
            {[i \in 1..len |-> FormatterResult(ns[i], ks[i])] :
                 ns \in {f \in [1..len -> lengths] :
                             \A i, j \in 1..len : i # j => f[i] # f[j]},
                 ks \in [1..len -> kinds]}
    IN UNION {lists(len, {6, 1700, 4100}, ResultKinds) : len \in 1..(MaxListed - 1)}
           \cup lists(MaxListed, NameLengths, PageKinds)

FormatterInit ==
    /\ TrackerIdle
    /\ CheckerIdle
    /\ MonitorIdle
    /\ run = [r \in Runs |-> IdleRun]

\* notify_failures(results, is_manual): _send_check_summary and the texts it posts;
\* one notification per behaviour
SendCheckSummary(r, results, next_run, answer) ==
    LET msgs == _send_check_summary(results, FALSE, FALSE, r = "manual", "default")
    IN /\ run' = [run EXCEPT ![r].all_results = results,
                             ![r].sent = IF msgs = <<>> THEN <<>>
                                         ELSE Posted(msgs[1].kind,
                                                     check_summary_texts(results, next_run),
                                                     answer)]
       /\ UNCHANGED <<checkerVars, trackerVars, monitorVars>>

\* notify_failures(results, new_errors, recovered): _send_smart_notification with
\* every failing result new and every successful one recovered
SendSmartNotification(r, results, next_run, answer) ==
    LET new_errors == SelectSeq(results, LAMBDA x : ~is_success(x))
        recovered == SelectSeq(results, is_success)
    IN /\ run' = [run EXCEPT ![r].all_results = results,
                             ![r].sent =
                                 IF _send_smart_notification(new_errors, recovered, "default") = <<>>
                                 THEN <<>>
                                 ELSE Posted("state_change",
                                             <<smart_notification_text(new_errors, recovered,
                                                                       new_errors, results,
                                                                       next_run)>>,
                                             answer)]
       /\ UNCHANGED <<checkerVars, trackerVars, monitorVars>>

\* the progress text run_check's batch_callback hands to TelegramBot.send_message
BotSendMessage(r, answers) ==
    /\ run' = [run EXCEPT ![r].sent =
                  <<[text |-> <<Piece("progress", "", 30)>>,
                     requests |-> bot_send_message(<<Piece("progress", "", 30)>>,
                                                   "Markdown", answers)]
                        @@ [Msg("batch_done", "default") EXCEPT !.via = "batch_callback"]>>]
    /\ UNCHANGED <<checkerVars, trackerVars, monitorVars>>

NextFormatter ==
    /\ run = [r \in Runs |-> IdleRun]
    /\ \E r \in Runs :
           \/ \E results \in FormatterResults, next_run \in NextRuns,
                 answer \in MessengerAnswers :
                  \/ SendCheckSummary(r, results, next_run, answer)
                  \/ SendSmartNotification(r, results, next_run, answer)
           \/ \E answers \in [1..2 -> MessengerAnswers] : BotSendMessage(r, answers)

SpecFormatter == FormatterInit /\ [][NextFormatter]_vars

(***************************************************************************)
(* Claims about the probe batch                                            *)
(***************************************************************************)
\* the URLs under which an endpoint text can be probed
ProbedUrls(t) == {NormalizeUrl(t, FALSE), NormalizeUrl(HttpUrl(t), TRUE)}

\* C1: a check_domains_batch(urls) call that returns gives a list as long as urls
\* whose i-th result is a result of the i-th endpoint.
C1_OneResultPerEndpoint ==
    \A r \in Runs :
        run[r].pc = "returned" =>
            /\ Len(run[r].all_results) = Len(run[r].urls)
            /\ \A i \in DOMAIN run[r].urls :
                  /\ run[r].all_results[i].url \in ProbedUrls(run[r].urls[i])
                  /\ run[r].all_results[i].status \in CheckStatus

\* a returned call of three endpoints in two batches, the batch size lowered from 2
\* to 1 in between, and a bare endpoint whose retry ended on http://
C1_Witness ==
    \E r \in Runs :
        /\ run[r].pc = "returned"
        /\ Len(run[r].urls) = 3
        /\ run[r].batch_idx = 2
        /\ run[r].batch_size = 1
        /\ \E i \in DOMAIN run[r].urls :
              /\ run[r].urls[i].scheme = ""
              /\ run[r].all_results[i].url.scheme = "http://"

\* C3: within one check_domains_batch run an endpoint is probed at most retry_count
\* times after its first attempt, and every such probe follows an attempt that ended
\* in timeout or connection_error.
C3_RetryBudget ==
    \A r \in Runs :
        \A k \in DOMAIN run[r].retry_tasks :
            /\ run[r].retry_tasks[k].probes <= retry_count
            /\ run[r].retry_tasks[k].after \subseteq {TIMEOUT, CONNECTION_ERROR}

(***************************************************************************)
(* Claims about the running monitor                                        *)
(***************************************************************************)
\* the probes in flight on the checker: first attempts and retries of every run
InFlight ==
    LET RunInFlight(rec) == Cardinality(Probing(rec.tasks))
                            + Cardinality(Probing(rec.retry_tasks))
    IN RunInFlight(run["sched"]) + RunInFlight(run["manual"])

\* C2: in every reachable state of the running monitor the number of probes in
\* flight on the checker is at most the current max_concurrent.
C2_InFlightBound == InFlight <= max_concurrent

\* a run_check that has called check_domains_batch and is not back from it
Outstanding(rec) ==
    rec.pc \in {"loop", "gather", "retry_sleep", "retry", "pause", "close"}

\* C17: at every moment at most one probe run is outstanding: a run that is in
\* flight when a new one is launched has been cancelled before the new one probes.
C17_OneOutstandingRun == Cardinality({r \in Runs : Outstanding(run[r])}) <= 1

\* C18: as long as the process is not stopped, after any scheduled cycle has ended
\* (normally, with an error, or cancelled by a manual check) the scheduler
\* eventually starts another cycle.
C18_SchedulerKeepsCycling ==
    \A n \in 1..(MaxCycles - 1) :
        [](  (launched["sched"] = n /\ run["sched"].pc \in {"done", "failed", "cancelled"})
             => <>(launched["sched"] = n + 1))

\* C19: after a scheduled cycle that took at least the interval the scheduler sends
\* one overrun notice and starts the next cycle without sleeping; after a shorter one
\* it sleeps the remainder and sends no notice; every cycle is started once, after
\* the one before it has ended.
C19_OverrunPolicy ==
    [][/\ (scheduler = "awaiting" /\ scheduler' \in {"sleeping", "looping"})
          => /\ run["sched"].pc \in {"done", "failed"}
             /\ elapsed_seconds' \in {"over", "under"}
             /\ elapsed_seconds' = "over"
                   => (overran_notices' = overran_notices + 1 /\ scheduler' = "looping")
             /\ elapsed_seconds' = "under"
                   => (overran_notices' = overran_notices /\ scheduler' = "sleeping")
       /\ overran_notices' # overran_notices
          => (scheduler = "awaiting" /\ scheduler' = "looping")
       /\ launched'["sched"] # launched["sched"]
          => /\ launched'["sched"] = launched["sched"] + 1
             /\ scheduler \in {"sleeping", "looping"}
             /\ scheduler' = "awaiting"
             /\ run["sched"].pc \in {"done", "failed"}
             /\ run'["sched"].pc = "spawned"]_vars

\* the first cycle overran: one notice was sent and the second cycle is running
C19_Witness ==
    /\ elapsed_seconds = "over"
    /\ overran_notices = 1
    /\ launched["sched"] = 2
    /\ scheduler = "awaiting"
    /\ Outstanding(run["sched"])

\* C20: a cancelled run produces no output: none of its probes is still in flight,
\* its partial results have not been handed to update_status, and no notification
\* about its results has been sent, with batch_notify on or off.
C20_CancelledRunSilent ==
    /\ \A r \in Runs :
          run[r].pc = "cancelled"
             => /\ Probing(run[r].tasks) = {}
                /\ Probing(run[r].retry_tasks) = {}
                /\ run[r].sent = <<>>
    /\ updates + Cardinality({r \in Runs : run[r].pc = "cancelled"})
          <= launched["sched"] + launched["manual"]

\* a manual run_check that went through its whole probe run and has ended
ManualCompleted ==
    /\ run["manual"].pc \in {"done", "failed"}
    /\ run["manual"].urls # <<>>
    /\ Len(run["manual"].all_results) = Len(run["manual"].urls)

FinalSummaries(sent) ==
    SelectSeq(sent, LAMBDA m : m.via = "run_check"
                               /\ m.kind \in {"all_ok", "failure_summary"})

\* C10: whenever a manual run_check completes a probe run, a full-summary message
\* has been sent, whatever the notification level and the results; with level smart
\* and every endpoint healthy exactly one "all ok" message has been sent.
C10_ManualAlwaysNotifies ==
    ManualCompleted =>
        /\ FinalSummaries(run["manual"].sent) # <<>>
        /\ (config.notification_level = "smart"
            /\ FailedCount(run["manual"].all_results) = 0)
           => Len(SelectSeq(run["manual"].sent, LAMBDA m : m.kind = "all_ok")) = 1

(***************************************************************************)
(* Claims about the notifications of a scheduled cycle                     *)
(***************************************************************************)
\* the step in which a scheduled run_check, back from its probe run, updates the
\* tracker and sends its notifications (or fails doing so)
SchedCycleEnds ==
    /\ run["sched"].pc = "returned"
    /\ run'["sched"].pc \in {"done", "failed"}

\* the prev->curr model of that step: endpoints newly failing or failing with another
\* status, and endpoints that failed before and are healthy now
CycleNewErrors ==
    {d \in DictKeys(CollectErrors(run["sched"].all_results, <<>>)) :
        IsNewError(current_errors,
                   DictGet(CollectErrors(run["sched"].all_results, <<>>), d))}

CycleRecovered == DictKeys(current_errors) \cap CurrentHealthy(run["sched"].all_results)

CycleUnacknowledged ==
    get_unacknowledged_errors(CollectErrors(run["sched"].all_results, <<>>),
                              acknowledged_errors \ CycleRecovered)

StateChanges(sent) == SelectSeq(sent, LAMBDA m : m.kind = "state_change")

\* C11: with level "all" every completed scheduled cycle sends a full summary,
\* whether or not an endpoint failed.
C11_AllLevelAlwaysSummary ==
    [][(SchedCycleEnds /\ config.notification_level = "all")
       => FinalSummaries(run'["sched"].sent) # <<>>]_vars

\* C12: with level "error" a completed scheduled cycle sends a full summary if and
\* only if at least one result is non-success.
C12_ErrorLevelIffFailure ==
    [][(SchedCycleEnds /\ config.notification_level = "error")
       => (FinalSummaries(run'["sched"].sent) # <<>>
           <=> FailedCount(run["sched"].all_results) > 0)]_vars

\* C13: with level "smart" a completed scheduled cycle with a new error, a changed
\* error status or a recovery sends exactly one state-change message, naming those
\* endpoints.
C13_SmartChangeMessage ==
    [][(/\ SchedCycleEnds
        /\ config.notification_level = "smart"
        /\ CycleNewErrors \cup CycleRecovered # {})
       => (/\ Len(StateChanges(run'["sched"].sent)) = 1
           /\ StateChanges(run'["sched"].sent)[1].names
                  = CycleNewErrors \cup CycleRecovered)]_vars

\* C14: with level "smart" a completed scheduled cycle without a change but with an
\* unacknowledged current error sends a reminder of the persistent errors.
C14_SmartPersistentReminder ==
    [][(/\ SchedCycleEnds
        /\ config.notification_level = "smart"
        /\ CycleNewErrors \cup CycleRecovered = {}
        /\ CycleUnacknowledged # <<>>)
       => \E i \in DOMAIN run'["sched"].sent : run'["sched"].sent[i].via = "run_check"]_vars

\* the scheduled cycle of C15: level "smart", every endpoint healthy now and before,
\* no unacknowledged error
HealthyCycleEnds ==
    /\ SchedCycleEnds
    /\ config.notification_level = "smart"
    /\ FailedCount(run["sched"].all_results) = 0
    /\ current_errors = <<>>
    /\ CycleUnacknowledged = <<>>

\* C15: with level "smart" a scheduled cycle in which every endpoint is healthy and
\* was healthy before sends no message at all.
C15_HealthySendsNothing ==
    [][HealthyCycleEnds => run'["sched"].sent = <<>>]_vars

\* C15, amended: such a cycle sends no notification about its results; with
\* batch_notify off it sends nothing, with batch_notify on only the progress line of
\* each finished batch.
C15_HealthySendsNoResults ==
    [][HealthyCycleEnds
       => (/\ \A i \in DOMAIN run'["sched"].sent :
                 run'["sched"].sent[i].kind = "batch_done"
           /\ ~config.batch_notify => run'["sched"].sent = <<>>)]_vars

\* a healthy scheduled cycle at level "smart" has ended in silence
C15_Witness ==
    /\ run["sched"].pc = "done"
    /\ config.notification_level = "smart"
    /\ ~config.batch_notify
    /\ Len(run["sched"].all_results) = Len(MonitorDomains)
    /\ FailedCount(run["sched"].all_results) = 0
    /\ previous_errors = <<>>
    /\ current_errors = <<>>
    /\ run["sched"].sent = <<>>

C8_SizeCaps ==
    /\ Len(last_status) <= 1000
    /\ Len(history) <= 10000

\* the cache was cut to its newer half at the cap and the history dropped its oldest
\* record at the cap
C8_Witness ==
    /\ Len(last_status) = max_status_cache \div 2 + 1
    /\ Len(history) = max_records
    /\ last_op = "add_to_history"
    /\ history[1] # FilledHistory(1)[1]

(***************************************************************************)
(* Claims about the tracker                                                *)
(***************************************************************************)
Names(rs) == {rs[i].domain_name : i \in DOMAIN rs}
NonSuccessNames(rs) == {rs[i].domain_name : i \in {j \in DOMAIN rs : ~is_success(rs[j])}}

\* the status the results report for domain_name d (the last failing one wins)
ReportedStatus(rs, d) ==
    rs[CHOOSE i \in DOMAIN rs :
          /\ rs[i].domain_name = d /\ ~is_success(rs[i])
          /\ \A j \in DOMAIN rs :
                (rs[j].domain_name = d /\ ~is_success(rs[j])) => j <= i].status

\* C4: every update_status call returns three lists, pairwise disjoint by endpoint,
\* that are the prev->curr diff: new = failing and (absent before or status changed),
\* persistent = failing with the same status as before, recovered = failing before
\* and successful now.
C4_DiffLists ==
    last_op = "update_status" =>
        LET prev == previous_errors
            rs == ret.results
            failing == NonSuccessNames(rs)
            changed == {d \in failing :
                           d \notin DictKeys(prev)
                           \/ DictGet(prev, d).status # ReportedStatus(rs, d)}
        IN /\ ~ret.raised
           /\ Names(ret.new_errors) \cap Names(ret.recovered) = {}
           /\ Names(ret.new_errors) \cap Names(ret.persistent_errors) = {}
           /\ Names(ret.new_errors) = changed
           /\ Names(ret.persistent_errors) = failing \ changed
           /\ Names(ret.recovered) = DictKeys(prev) \cap CurrentHealthy(rs)

\* C5: update_status(results) called twice in succession: the second call returns
\* new_errors = {}, recovered = {} and persistent_errors = the failing endpoints.
C5_Idempotent ==
    [][(/\ last_op = "update_status"
        /\ last_op' = "update_status"
        /\ updates' = updates + 1
        /\ ret'.results = ret.results)
       => (/\ ~ret'.raised
           /\ ret'.new_errors = <<>>
           /\ ret'.recovered = <<>>
           /\ Names(ret'.persistent_errors) = NonSuccessNames(ret'.results))]_vars

\* C6: every acknowledged endpoint is a key of current_errors.
C6_AckSubsetOfErrors == acknowledged_errors \subseteq DictKeys(current_errors)

\* C7: when an endpoint that was in current_errors is reported as success, the call
\* returns normally with it in recovered, a "recovered" record is in the history, and
\* it is in neither current_errors nor acknowledged_errors.
C7_RecoveryStep ==
    last_op = "update_status" =>
        \A e \in DictKeys(previous_errors) \cap CurrentHealthy(ret.results) :
            /\ ~ret.raised
            /\ \E i \in DOMAIN ret.recovered :
                  ret.recovered[i].domain_name = e /\ is_success(ret.recovered[i])
            /\ \E i \in DOMAIN history :
                  history[i].domain_name = e /\ history[i].status = "recovered"
            /\ e \notin DictKeys(current_errors)
            /\ e \notin acknowledged_errors

\* C9: for every key of current_errors, the latest history record of that endpoint,
\* if there is one, does not have status "recovered".
RecordsOf(e) == {i \in DOMAIN history : history[i].domain_name = e}
LatestRecord(e) == history[CHOOSE i \in RecordsOf(e) : \A j \in RecordsOf(e) : j <= i]

C9_LatestNotRecovered ==
    \A e \in DictKeys(current_errors) :
        RecordsOf(e) # {} => LatestRecord(e).status # "recovered"

\* an endpoint failed, was reported successful, and is failing again with a record
C9_Witness ==
    /\ last_op = "update_status"
    /\ updates >= 2
    /\ \E e \in DictKeys(current_errors) :
          /\ RecordsOf(e) # {}
          /\ e \notin DictKeys(previous_errors)

(***************************************************************************)
(* Claims about multi-group routing                                        *)
(***************************************************************************)
\* the results of the endpoints configured in a group: those probed under the URL
\* of one of the group's endpoint texts
ConfiguredResults(rs, group_domains) ==
    SelectSeq(rs, LAMBDA x : \E i \in DOMAIN group_domains :
                                 x.url \in ProbedUrls(group_domains[i]))

\* C24: in multi-group mode the slice of results a group's notification is decided
\* on and sent from holds every result of an endpoint configured in the group,
\* bare or scheme-prefixed, and no result of an endpoint configured elsewhere; so
\* at the levels "all" and "error" every group with a failing endpoint gets a message.
C24_GroupSlices ==
    \A r \in Runs :
        run[r].pc = "done" =>
            \A g \in DOMAIN run[r].groups_domains_map :
                LET entry == run[r].groups_domains_map[g]
                IN /\ GroupSlice(run[r].all_results, entry.v)
                          = ConfiguredResults(run[r].all_results, entry.v)
                   /\ (config.notification_level \in {"all", "error"}
                       /\ FailedCount(ConfiguredResults(run[r].all_results, entry.v)) > 0)
                          => \E i \in DOMAIN run[r].sent : run[r].sent[i].chat = entry.k

\* the same for groups of bare endpoints whose hosts no other group names
C24_BareGroupSlices ==
    \A r \in Runs :
        (/\ run[r].pc = "done"
         /\ \A g \in DOMAIN run[r].groups_domains_map :
                \A i \in DOMAIN run[r].groups_domains_map[g].v :
                    run[r].groups_domains_map[g].v[i] \in {E_a, E_b})
            => \A g \in DOMAIN run[r].groups_domains_map :
                   LET entry == run[r].groups_domains_map[g]
                   IN /\ GroupSlice(run[r].all_results, entry.v)
                             = ConfiguredResults(run[r].all_results, entry.v)
                      /\ (config.notification_level \in {"all", "error"}
                          /\ FailedCount(ConfiguredResults(run[r].all_results, entry.v)) > 0)
                             => \E i \in DOMAIN run[r].sent : run[r].sent[i].chat = entry.k

(***************************************************************************)
(* Claims about the notification texts                                     *)
(***************************************************************************)
\* the texts posted by the runs, in the order they were posted
PostedTexts(r) ==
    [i \in DOMAIN SelectSeq(run[r].sent, LAMBDA m : "text" \in DOMAIN m) |->
        SelectSeq(run[r].sent, LAMBDA m : "text" \in DOMAIN m)[i].text]

\* the pieces of a kind in a sequence of texts, in order
RECURSIVE PiecesOf(_, _)
PiecesOf(texts, kinds) ==
    IF texts = <<>> THEN <<>>
    ELSE SelectSeq(Head(texts), LAMBDA p : p.kind \in kinds) \o PiecesOf(Tail(texts), kinds)

SummaryPosted(r) ==
    /\ run[r].sent # <<>>
    /\ run[r].sent[1].kind = "failure_summary"
    /\ "text" \in DOMAIN run[r].sent[1]

\* C21: every text posted to sendMessage for a check notification (each page of
\* a failure summary, the "all ok" block, the state-change message) is at most
\* 4096 characters long, whatever the number and the lengths of the names.
C21_TextWithinLimit ==
    \A r \in Runs : \A i \in DOMAIN PostedTexts(r) : TextLen(PostedTexts(r)[i]) <= 4096

\* C21 witness: a text that was too long has been posted, cut and with the notice
C21_Witness ==
    \E r \in Runs : \E i \in DOMAIN PostedTexts(r) :
        /\ \E j \in DOMAIN PostedTexts(r)[i] : PostedTexts(r)[i][j].kind = "notice"
        /\ TextLen(PostedTexts(r)[i]) <= 4096
        /\ \E k \in DOMAIN run[r].all_results :
               StrLen(run[r].all_results[k].domain_name) > 4096

\* C22: pagination loses nothing: in a failure summary every non-success result,
\* whatever its status or HTTP code, is shown as exactly one whole bullet in
\* exactly one of the posted messages.
C22_PaginationLosesNothing ==
    \A r \in Runs :
        SummaryPosted(r) =>
            \A k \in DOMAIN run[r].all_results :
                ~is_success(run[r].all_results[k]) =>
                    Len(SelectSeq(PiecesOf(PostedTexts(r), {"bullet"}),
                                  LAMBDA p : p.key = run[r].all_results[k].domain_name)) = 1

\* the same for results of every bucket but http_<code>, with names that fit a message
C22_ListedBucketsKeepBullets ==
    \A r \in Runs :
        SummaryPosted(r) =>
            \A k \in DOMAIN run[r].all_results :
                (/\ ~is_success(run[r].all_results[k])
                 /\ \E i \in DOMAIN display_order :
                        display_order[i] = error_group_key(run[r].all_results[k])
                 /\ \A j \in DOMAIN run[r].all_results :
                        StrLen(run[r].all_results[j].domain_name) <= 3950)
                    => Len(SelectSeq(PiecesOf(PostedTexts(r), {"bullet"}),
                                     LAMBDA p : p.key = run[r].all_results[k].domain_name)) = 1

\* the bucket table: the bucket of a non-success result by status and HTTP code
FailureBucket(status, status_code) ==
    IF status # HTTP_ERROR THEN status
    ELSE IF status_code >= 520 /\ status_code <= 526 THEN "cloudflare_error"
    ELSE IF status_code >= 502 /\ status_code <= 504 THEN "gateway_error"
    ELSE IF status_code = 500 THEN "server_error"
    ELSE IF status_code \in {401, 403, 451} THEN "access_denied"
    ELSE IF status_code = 404 THEN "not_found"
    ELSE IF status_code \in {400, 429} THEN "bad_request"
    ELSE "http_" \o ToString(status_code)

\* the order of the sections
BucketOrder ==
    <<"cloudflare_error", "gateway_error", "server_error", "access_denied", "not_found",
      "bad_request", "dns_error", "connection_error", "timeout", "ssl_error",
      "websocket_error", "phishing_warning", "security_warning", "unknown_error">>

BucketRank(key) == CHOOSE i \in DOMAIN BucketOrder : BucketOrder[i] = key

ResentOnce(m) ==
    /\ m.requests[1].parse_mode = "Markdown"
    /\ IF m.requests[1].status_code = 400
       THEN /\ Len(m.requests) = 2
            /\ m.requests[2].text = m.requests[1].text
            /\ m.requests[2].parse_mode = ""
       ELSE Len(m.requests) = 1

\* C25: when sendMessage answers 400 to a check notification sent in Markdown
\* mode (a page of the summary, the "all ok" block, the state-change message), the
\* same text is sent again exactly once with no parse mode, and never a third time.
C25_CheckNotificationResent ==
    \A r \in Runs : \A i \in DOMAIN run[r].sent :
        ("requests" \in DOMAIN run[r].sent[i]
         /\ run[r].sent[i].kind \in {"failure_summary", "all_ok", "state_change"})
            => ResentOnce(run[r].sent[i])

\* the same for the texts that go through TelegramBot.send_message
C25_BotMessageResent ==
    \A r \in Runs : \A i \in DOMAIN run[r].sent :
        ("requests" \in DOMAIN run[r].sent[i] /\ run[r].sent[i].kind = "batch_done")
            => ResentOnce(run[r].sent[i])

(***************************************************************************)
(* Claims about acknowledging                                              *)
(***************************************************************************)
\* C26: acknowledging an endpoint that is not in current_errors is a no-op: the
\* /ack command leaves acknowledged_errors and the history as they were.
C26_HealthyAckNoOp ==
    [][\A d \in {Netloc(E_a), Netloc(E_b)} :
          (last_op' = "/ack " \o d.host /\ d \notin DictKeys(current_errors))
              => (acknowledged_errors' = acknowledged_errors /\ history' = history)]_vars

\* C26 witness: "/ack a.test" has run while a.test was not in current_errors, with
\* an unacknowledged record of a.test in the history
C26_Witness ==
    /\ last_op = "/ack a.test"
    /\ Netloc(E_a) \notin DictKeys(current_errors)
    /\ Netloc(E_a) \notin acknowledged_errors
    /\ AckIndex(history, Netloc(E_a)) # {}

(***************************************************************************)
(* Claims about the command dispatcher                                     *)
(***************************************************************************)
\* the handlers of a command that are running
RunningHandlers(command) ==
    {i \in DOMAIN bot.tasks : /\ bot.tasks[i].kind = "wrapper"
                              /\ bot.tasks[i].command = command
                              /\ bot.tasks[i].st = "running"}

\* C27: while an execution of /check, /reload, /stop or /restart is in flight, the
\* handler of a further request for the same command is not run, however the
\* updates arrive: never two handlers of one command in flight, and no /check
\* handler while the manual check runs.
C27_NoReentrantHandler ==
    /\ \A command \in blocking_commands : Cardinality(RunningHandlers(command)) <= 1
    /\ "check" \in executing_commands => RunningHandlers("/check") = {}

\* the same for /reload requests that all came in different getUpdates answers
C27_SeparateAnswersRefused ==
    (\A i, j \in DOMAIN bot.tasks :
         (/\ i # j
          /\ bot.tasks[i].kind = "process_update"
          /\ bot.tasks[j].kind = "process_update") => bot.tasks[i].batch # bot.tasks[j].batch)
        => Cardinality(RunningHandlers("/reload")) <= 1

(***************************************************************************)
(* Claims about the retry pass and the resource controller                 *)
(***************************************************************************)
\* C28: a batch makes a single retry pass: an endpoint whose first attempt ended
\* in timeout or connection_error is probed exactly one more time in that batch,
\* whatever retry_count is, and that probe's result is the one reported at the
\* endpoint's index.
C28_SingleRetryPass ==
    \A r \in Runs :
        \A k \in DOMAIN run[r].retry_tasks :
            /\ run[r].retry_tasks[k].probes <= 1
            /\ run[r].retry_tasks[k].st = "done" => run[r].retry_tasks[k].probes = 1

\* the same with retry_count = 1 and no SSL or connection failure at the retry
C28_SingleRetryAtCountOne ==
    \A r \in Runs :
        \A k \in DOMAIN run[r].retry_tasks :
            (retry_count = 1 /\ run[r].retry_tasks[k].after \subseteq {TIMEOUT})
                => /\ run[r].retry_tasks[k].probes <= 1
                   /\ run[r].retry_tasks[k].st = "done" => run[r].retry_tasks[k].probes = 1

\* the requests in flight of a run: first attempts and retries
ProbesInFlight(r) ==
    {run[r].tasks[i] : i \in Probing(run[r].tasks)}
        \cup {run[r].retry_tasks[k] : k \in Probing(run[r].retry_tasks)}

\* C29: in a run over more than 50 endpoints every probe, HTTP or WebSocket, first
\* attempt or retry, runs under a timeout of 5 seconds, whatever timeout_seconds is.
C29_QuickTimeout ==
    \A r \in Runs :
        quick_mode(run[r]) => \A t \in ProbesInFlight(r) : t.timeout = 5

\* the same for the WebSocket probes only
C29_QuickWebsocketTimeout ==
    \A r \in Runs :
        quick_mode(run[r]) =>
            \A t \in ProbesInFlight(r) : IsWebsocket(t.url) => t.timeout = 5

\* mean response times of the last batches, in seconds, against a timeout of 10:
\* too few, fast, slow, and slow after a fast one
ResponseTimes == {<<>>, <<9, 9>>, <<1, 1, 1>>, <<9, 9, 9>>, <<1, 9, 9, 9>>}

\* the memory rule and the latency rule leave the candidate or lower it
RulesNeverRaise ==
    \A cpu \in CpuReadings, mem \in MemReadings :
        LET c == by_cpu(initial_concurrent, cpu)
            m == by_memory(c, initial_concurrent, mem)
        IN /\ m <= c
           /\ \A h \in ResponseTimes : by_latency(m, h, 10) <= m

\* the candidate stays under the four bounds wherever the bound is at least
\* floor50 (CPU > 80), floor70 (CPU > 60), floor30 (memory > 85), floor60 (memory > 70)
CapsFrom(floor50, floor70, floor30, floor60) ==
    LET n == initial_concurrent
    IN \A cpu \in CpuReadings, mem \in MemReadings :
          LET s == suggested_concurrent(n, cpu, mem)
          IN /\ (cpu > 80 /\ (n * 5) \div 10 >= floor50) => s <= (n * 5) \div 10
             /\ (cpu > 60 /\ (n * 7) \div 10 >= floor70) => s <= (n * 7) \div 10
             /\ (mem > 85 /\ (n * 3) \div 10 >= floor30) => s <= (n * 3) \div 10
             /\ (mem > 70 /\ (n * 6) \div 10 >= floor60) => s <= (n * 6) \div 10

\* C30: for every initial concurrency in 1..200 for which the bound is at least 1, the
\* candidate of _adjust_concurrent_by_resources is at most floor(initial * 0.5) when
\* CPU > 80, floor(initial * 0.7) when CPU > 60, floor(initial * 0.3) when memory > 85
\* and floor(initial * 0.6) when memory > 70; the memory and the latency rule never
\* raise the candidate.
C30_ControllerCaps == CapsFrom(1, 1, 1, 1) /\ RulesNeverRaise

\* C30 as the code has it: the 0.7 and the 0.6 rule floor the candidate at 2, so
\* their caps hold where the bound is at least 2; the 0.5 and the 0.3 rule floor it
\* at 1.
C30_ControllerCapsFloors == CapsFrom(1, 2, 1, 2) /\ RulesNeverRaise

\* initial 90 at a CPU reading of 70: int(90 * 0.7) is 62, and the controller took it
C30_Witness ==
    /\ auto_adjust /\ PSUTIL_AVAILABLE
    /\ initial_concurrent = 90
    /\ max_concurrent = 62

\* C31: when no CPU, memory or latency rule fires, a call of the controller in a
\* cycle leaves max_concurrent at the configured check.max_concurrent, also after
\* the operator changed that value between cycles.
C31_StartsFromConfigured ==
    [][(max_concurrent = config.max_concurrent /\ AdjustConcurrent(50, 50))
         => max_concurrent' = config.max_concurrent]_vars

\* the same as long as check.max_concurrent is the value the checker was built with
C31_StartsFromConstructed ==
    [][(max_concurrent = config.max_concurrent
          /\ config.max_concurrent = initial_concurrent
          /\ AdjustConcurrent(50, 50))
         => max_concurrent' = config.max_concurrent]_vars

(***************************************************************************)
(* Claims about the failure counter                                        *)
(***************************************************************************)
\* failure_count.get(url, 0)
CountOf(count, url) == IF url \in DictKeys(count) THEN DictGet(count, url) ELSE 0

\* a cycle of run r completes with this step: its counters are 0 for an endpoint that
\* succeeded, at least 1 for one that failed and at least 2 for one that failed in
\* the cycle before as well
CounterFollows(r) ==
    (run[r].pc = "returned" /\ run'[r].pc = "done") =>
        \A i \in DOMAIN run[r].all_results :
            LET res == run[r].all_results[i]
                n == CountOf(failure_count', res.url)
            IN IF is_success(res) THEN n = 0
               ELSE /\ n >= 1
                    /\ res.domain_name \in DictKeys(current_errors) => n >= 2

\* C32: the failure counter of an endpoint is the number of consecutive most recent
\* cycles in which its result was not a success (0 right after a successful cycle),
\* after any sequence of cycles, for every notification level, in single-group and
\* in multi-group mode.
C32_FailureCounter == [][\A r \in Runs : CounterFollows(r)]_vars

\* the same for the cycles that report every batch (check.batch_notify on)
C32_FailureCounterBatchNotify ==
    [][\A r \in Runs : config.batch_notify => CounterFollows(r)]_vars

(***************************************************************************)
(* Claims about the tracker between cycles                                 *)
(***************************************************************************)
\* a dict as the set of its items
Items(d) == {<<d[i].k, d[i].v>> : i \in DOMAIN d}

\* the non-success results of a cycle by domain name, the last one of a name
ErrorItems(results) ==
    LET failed == {i \in DOMAIN results : ~is_success(results[i])}
        last(dn) == CHOOSE i \in failed :
                       /\ results[i].domain_name = dn
                       /\ \A j \in failed : results[j].domain_name = dn => j <= i
    IN {<<results[i].domain_name, results[last(results[i].domain_name)]>> : i \in failed}

StopCalled == stop_call.pc = "none" /\ stop_call'.pc # "none"

\* C34: a stop that is not forced never cancels the check cycle in flight and waits
\* for it without a time limit; a forced stop waits at most 2 s for the tasks and
\* cancels them then.
C34_StopSemantics ==
    [][/\ StopCalled => /\ run'["sched"] = run["sched"]
                        /\ stop_call'.pc = "draining"
       /\ (stop_call.pc = "draining" /\ stop_call'.pc # "draining")
            => IF stop_call.force
               THEN Active(run["sched"]) => run'["sched"].pc = "cancelled"
               ELSE ~Active(run["sched"]) /\ stop_call'.pc = "returned"]_vars

\* C34 as the code has it: every stop cancels the check cycle in flight and the
\* scheduler at once; a forced stop returns without waiting, a stop that is not
\* forced waits for the cancelled tasks for at most 2 s.
C34_StopCancelsAtOnce ==
    [][/\ StopCalled => /\ Active(run["sched"]) => run'["sched"].pc = "cancelled"
                        /\ ~Active(run'["sched"])
                        /\ scheduler' = "stopped"
                        /\ stop_call'.pc = IF stop_call'.force THEN "returned"
                                           ELSE "draining"
       /\ (stop_call.pc = "draining" /\ stop_call'.pc # "draining")
            => /\ ~stop_call.force
               /\ stop_call'.pc \in {"returned", "timed_out"}
               /\ run' = run]_vars

\* a stop that is not forced has cancelled a cycle whose probes were in flight
C34_Witness ==
    /\ stop_call = [pc |-> "draining", force |-> FALSE]
    /\ run["sched"].pc = "cancelled"
    /\ \E i \in DOMAIN run["sched"].tasks : run["sched"].tasks[i].st = "cancelled"

(***************************************************************************)
(* Claims about the configuration file                                     *)
(***************************************************************************)
Complete(file) == file \notin {"absent", "partial"}

\* C35: after save_config returns, True or False, a complete config file exists, and
\* on failure it holds the content it had before the save.
C35_SaveLeavesCompleteFile ==
    [][fs' # fs => /\ fs'.returned \in {"true", "false"}
                   /\ Complete(fs'.config_file)
                   /\ fs'.returned = "false" => fs'.config_file = fs.config_file]_vars

\* the same where rename replaces its target and a complete file was there before
C35_SaveOverExistingFile ==
    [][(fs' # fs /\ fs.replace /\ Complete(fs.config_file))
          => /\ fs'.returned \in {"true", "false"}
             /\ Complete(fs'.config_file)
             /\ fs'.returned = "false" => fs'.config_file = fs.config_file]_vars

(***************************************************************************)
(* Claims about the tracker's keys                                         *)
(***************************************************************************)
\* the failed result at position i of the last cycle has its entry in current_errors
HasEntry(i) == \E j \in DOMAIN current_errors : current_errors[j].v = ret.results[i]

\* C36: two distinct configured endpoints, such as two URLs on one host, always have
\* distinct entries in current_errors: the result of one never overwrites, hides or
\* clears the error state of the other.
C36_EntryPerEndpoint ==
    last_op = "update_status" =>
        \A i \in DOMAIN ret.results : ~is_success(ret.results[i]) => HasEntry(i)

\* the same for endpoints on different hosts
C36_EntryPerHost ==
    last_op = "update_status" =>
        \A i \in DOMAIN ret.results :
            (/\ ~is_success(ret.results[i])
             /\ \A k \in DOMAIN ret.results :
                   k # i => ret.results[k].domain_name # ret.results[i].domain_name)
                => HasEntry(i)

\* the request carries the server's key in some place the server reads
CarriesKey(request, api_key) ==
    \/ request.scheme = "Bearer" /\ request.token = api_key
    \/ request.x_api_key = api_key
    \/ request.api_key = api_key

\* the last request passed the allowlist and the rate limit with authentication on
Screened ==
    /\ http.auth_enabled
    /\ http.response.status \notin {0, 403, 429}

\* C37: with authentication enabled, a request that carries no key or a wrong key is
\* answered 401 and never reaches the /sendMsg handler, for every api_key value
\* including the default one
C37_KeylessRefused ==
    (Screened /\ ~CarriesKey(http.response.request, http.api_key))
        => (http.response.status = 401 /\ ~http.response.handled)

\* the same property for servers whose api_key is not empty
C37_KeylessRefusedNonEmptyKey ==
    (Screened /\ http.api_key # "" /\ ~CarriesKey(http.response.request, http.api_key))
        => (http.response.status = 401 /\ ~http.response.handled)

\* run r leaves the head of run_check by an exception in this step
AbortedAtHead(r) == run[r].pc = "spawned" /\ run'[r].pc = "failed"

\* C38: in single-group mode (the bot object carries no groups_config) with a
\* non-empty domains list, no run_check is aborted by an internal error before the
\* probe batch: it goes on to check_domains_batch
C38_SingleGroupReachesBatch ==
    [][\A r \in Runs :
          (~bot.has_groups_config /\ config.domains # <<>>) => ~AbortedAtHead(r)]_vars

\* the same property for a bot object that carries a groups_config, empty or not
C38_WithGroupsConfigReachesBatch ==
    [][\A r \in Runs :
          (bot.has_groups_config /\ config.domains # <<>>) => ~AbortedAtHead(r)]_vars

\* the runs whose check_domains_batch has not ended
StillRunning == {r \in Runs : Active(run[r])}

\* C39: a pooled HTTP client is never closed while a request of a still-running check
\* run is in flight on it, neither by the close_client that ends another run nor by
\* the one the adaptive controller schedules
C39_ClientNotClosedInUse ==
    \A u \in closed_under : u[1] \notin StillRunning

\* the same property for the run that closes the client itself: none of its own
\* requests is in flight when it calls close_client or adjusts the concurrency
C39_OwnRequestsNotClosed ==
    [][\A r \in Runs :
          (run[r].pc \in {"close", "loop"} /\ run'[r].pc # run[r].pc)
              => \A u \in closed_under' \ closed_under : u[1] # r]_vars

\* C40: after an accepted /check the 'check' marker is eventually removed from
\* executing_commands, whether the check callback returns, raises or is cancelled
C40_MarkerReleased ==
    ("check" \in executing_commands) ~> ("check" \notin executing_commands)

\* the task of a /check was cancelled and its marker is gone
C40_Witness ==
    /\ launched["manual"] = 1
    /\ run["manual"].pc = "cancelled"
    /\ "check" \notin executing_commands

====
